---------------------------- MODULE Spec2Model ----------------------------
(***************************************************************************)
(* Static route extraction of extraction/repo_collector.py:                *)
(* RepoCollector.extract_endpoints and the EndpointVisitor, and the loop   *)
(* of benchmark_repos.run_repo_benchmark that clones, extracts, validates  *)
(* and cleans up.                                                          *)
(*                                                                         *)
(* Python str values are TLA+ strings, taken apart with Len and SubSeq.    *)
(* A pathlib.Path is the sequence of its components, relative to the       *)
(* working directory (Path('.') is the empty sequence).  A syntax tree is  *)
(* the sequence of its statements in source order, each with the depth of  *)
(* its nesting; an expression that is a Name or an Attribute chain is the  *)
(* sequence of its identifiers.                                            *)
(***************************************************************************)
EXTENDS Integers, Sequences, FiniteSets, TLC

(***************************************************************************)
(* Bounds of the model                                                     *)
(***************************************************************************)
\* The longest decorator list of the generated handler functions.
MaxDecorators == 2

(***************************************************************************)
(* str                                                                     *)
(*                                                                         *)
(* The operators that walk a string bind it once (v \in {s}) and walk it   *)
(* by position.                                                            *)
(***************************************************************************)
\* s[:n]
StrTo(s, n) == SubSeq(s, 1, n)
CharAt(s, i) == SubSeq(s, i, i)

EndsWith(s, p) == Len(s) >= Len(p) /\ SubSeq(s, Len(s) - Len(p) + 1, Len(s)) = p

\* str.replace(old, new): every non-overlapping occurrence, left to right,
\* from position i on.
RECURSIVE StrReplaceAt(_, _, _, _)
StrReplaceAt(s, old, new, i) ==
    IF i > Len(s) THEN ""
    ELSE IF i + Len(old) - 1 <= Len(s) /\ SubSeq(s, i, i + Len(old) - 1) = old
         THEN new \o StrReplaceAt(s, old, new, i + Len(old))
         ELSE CharAt(s, i) \o StrReplaceAt(s, old, new, i + 1)
StrReplace(s, old, new) == CHOOSE r \in {StrReplaceAt(v, old, new, 1) : v \in {s}} : TRUE

\* sub in s
StrContains(s, sub) ==
    \E i \in 1..(Len(s) - Len(sub) + 1) : SubSeq(s, i, i + Len(sub) - 1) = sub

\* s.count(sub) for a one-character sub
StrCount(s, c) == Cardinality({i \in 1..Len(s) : CharAt(s, i) = c})

\* s.split(c) for a one-character separator c: the pieces from position i
\* on, acc being the piece begun before i.
RECURSIVE StrSplitFrom(_, _, _, _)
StrSplitFrom(s, c, i, acc) ==
    IF i > Len(s) THEN <<acc>>
    ELSE IF CharAt(s, i) = c
         THEN <<acc>> \o StrSplitFrom(s, c, i + 1, "")
         ELSE StrSplitFrom(s, c, i + 1, acc \o CharAt(s, i))
StrSplit(s, c) == CHOOSE r \in {StrSplitFrom(v, c, 1, "") : v \in {s}} : TRUE

\* sep.join(parts)
RECURSIVE StrJoin(_, _)
StrJoin(parts, sep) ==
    IF Len(parts) = 0 THEN ""
    ELSE IF Len(parts) = 1 THEN parts[1]
         ELSE parts[1] \o sep \o StrJoin(Tail(parts), sep)

LowerLetters == "abcdefghijklmnopqrstuvwxyz"
UpperLetters == "ABCDEFGHIJKLMNOPQRSTUVWXYZ"

\* str.upper() of one character
UpperChar(c) ==
    IF \E i \in 1..Len(LowerLetters) : CharAt(LowerLetters, i) = c
    THEN CharAt(UpperLetters, CHOOSE i \in 1..Len(LowerLetters) : CharAt(LowerLetters, i) = c)
    ELSE c

\* str.upper(), from position i on
RECURSIVE StrUpperFrom(_, _)
StrUpperFrom(s, i) ==
    IF i > Len(s) THEN ""
    ELSE UpperChar(CharAt(s, i)) \o StrUpperFrom(s, i + 1)
StrUpper(s) == CHOOSE r \in {StrUpperFrom(v, 1) : v \in {s}} : TRUE

\* str(n) of a small non-negative integer
Digits == "0123456789"
RECURSIVE IntToStr(_)
IntToStr(n) ==
    IF n < 10 THEN CharAt(Digits, n + 1)
    ELSE IntToStr(n \div 10) \o CharAt(Digits, (n % 10) + 1)

(***************************************************************************)
(* pathlib.Path                                                            *)
(***************************************************************************)
Last(seq) == seq[Len(seq)]
Front(seq) == SubSeq(seq, 1, Len(seq) - 1)

\* Path.parent: Path('.').parent is Path('.')
PathParent(p) == IF Len(p) = 0 THEN p ELSE Front(p)
\* Path.name: '' for Path('.')
PathName(p) == IF Len(p) = 0 THEN "" ELSE Last(p)
\* Path.joinpath(*parts), p / name
PathJoin(p, parts) == p \o parts

IsPrefix(p, q) == Len(p) <= Len(q) /\ SubSeq(q, 1, Len(p)) = p

\* The index of the last '.' of a name, 0 when it has none.
RECURSIVE LastDot(_, _)
LastDot(name, i) ==
    IF i = 0 THEN 0
    ELSE IF CharAt(name, i) = "." THEN i ELSE LastDot(name, i - 1)

\* PurePath.suffix: the part of the name from its last '.', unless that dot
\* opens or closes the name.
NameSuffix(name) ==
    LET i == LastDot(name, Len(name))
    IN IF 1 < i /\ i < Len(name) THEN SubSeq(name, i, Len(name)) ELSE ""

\* Path.with_suffix(suffix) raises ValueError on a path with an empty name.
WithSuffixRaises(p) == PathName(p) = ""
WithSuffix(p, suffix) ==
    LET name == PathName(p)
        stem == StrTo(name, Len(name) - Len(NameSuffix(name)))
    IN Append(Front(p), stem \o suffix)


(***************************************************************************)
(* Syntax trees (module ast)                                               *)
(***************************************************************************)
\* None where the code tests a str for truth (ImportFrom.module, alias.asname,
\* get_full_name's result) is the empty string; None where the code tests
\* `is None` (the resolver's resolved name) is NoneName, which no identifier is.
NoneName == "<None>"

\* ast.Name and ast.Attribute chains: app is NameExpr(<<"app">>), users.router
\* is NameExpr(<<"users", "router">>); make().router, whose innermost value
\* is neither, is OtherExpr(<<"router">>); ast.Constant carries its value.
NameExpr(ids) == [base |-> "Name", ids |-> ids]
OtherExpr(ids) == [base |-> "Other", ids |-> ids]
StrConst(s) == [base |-> "Constant", ty |-> "str", v |-> s]
IntConst(s) == [base |-> "Constant", ty |-> "int", v |-> s]

IsName(e) == e.base = "Name" /\ Len(e.ids) = 1
IsAttribute(e) ==
    \/ e.base = "Name" /\ Len(e.ids) >= 2
    \/ e.base = "Other" /\ Len(e.ids) >= 1
IsConstant(e) == e.base = "Constant"
\* Attribute.value and Attribute.attr
AttrValue(e) == [e EXCEPT !.ids = Front(e.ids)]
AttrName(e) == Last(e.ids)

\* Statements.  depth 0 is the module body, depth 1 a statement nested in a
\* function, class or conditional block.
Assign(depth, target, value) ==
    [k |-> "Assign", depth |-> depth, target |-> target, value |-> value]
CallValue(func) == [call |-> TRUE, func |-> func]
PlainValue == [call |-> FALSE, func |-> OtherExpr(<<>>)]
Alias(name, asname) == [name |-> name, asname |-> asname]
ImportFrom(depth, level, module, names) ==
    [k |-> "ImportFrom", depth |-> depth, level |-> level, module |-> module, names |-> names]
Import(depth, names) == [k |-> "Import", depth |-> depth, names |-> names]
CallStmt(depth, func, args) ==
    [k |-> "Call", depth |-> depth, func |-> func, args |-> args]
Keyword(arg, value) == [arg |-> arg, value |-> value]
Decorator(call, func, args, keywords, src) ==
    [call |-> call, func |-> func, args |-> args, keywords |-> keywords, src |-> src]
\* A function definition: its source text is the lines of its decorators,
\* then the def line and the body lines; lineno is the def line (as ast gives
\* it since Python 3.8) and end_lineno the last body line, both counted
\* within these lines.
FunctionDef(depth, name, is_async, decorator_list, def_lines) ==
    [k |-> "FunctionDef", depth |-> depth, name |-> name, is_async |-> is_async,
     decorator_list |-> decorator_list,
     lines |-> [i \in 1..Len(decorator_list) |-> decorator_list[i].src] \o def_lines,
     lineno |-> Len(decorator_list) + 1,
     end_lineno |-> Len(decorator_list) + Len(def_lines)]

\* A file of the checkout: whether open/read and ast.parse succeed, whether
\* its text holds the word FastAPI outside its statements (a comment, a
\* docstring), and the statements of its tree in source order.
\*   "ok"          read and parsed
\*   "unreadable"  open() or read() raises (permissions, not UTF-8, a directory)
\*   "syntax"      ast.parse raises SyntaxError
\*   "deep"        parsed, but NodeVisitor's recursion raises RecursionError
SourceFile(st, text_mentions, body) ==
    [st |-> st, text_mentions |-> text_mentions, body |-> body]

\* ast.walk is breadth-first: the statements of the module body in source
\* order, then the nested ones.
SelectDepth(body, d) == SelectSeq(body, LAMBDA s : s.depth = d)
AstWalk(body) == SelectDepth(body, 0) \o SelectDepth(body, 1)


(***************************************************************************)
(* EndpointVisitor                                                         *)
(***************************************************************************)
\* RepoCollector.__init__: the last segment of the repository URL.
RepoName == "repo"
\* self.target_dir = f"temp_repos/{self.repo_name}"
TargetDir == <<"temp_repos", RepoName>>

\* The attribute names _check_endpoint takes for HTTP verbs.
HttpVerbs == {"get", "post", "put", "delete", "patch", "options", "head"}

PyStr(s) == [ty |-> "str", v |-> s]
NoMatch == [is_endpoint |-> FALSE, method |-> "UNKNOWN", route |-> PyStr("")]

\* The test of one decorator: a call of an attribute of a Name in target_vars
\* whose attribute is an HTTP verb.
DecoratorMatches(decorator, target_vars) ==
    /\ decorator.call
    /\ IsAttribute(decorator.func)
    /\ IsName(AttrValue(decorator.func))
    /\ AttrValue(decorator.func).ids[1] \in target_vars
    /\ AttrName(decorator.func) \in HttpVerbs

\* The route of a matching decorator: the value of its first positional
\* argument when that is an ast.Constant, and '' otherwise.
DecoratorRoute(decorator) ==
    IF decorator.args # <<>> /\ IsConstant(decorator.args[1])
    THEN [ty |-> decorator.args[1].ty, v |-> decorator.args[1].v]
    ELSE PyStr("")

\* (the loop without its break: the last matching decorator would win)
RECURSIVE CheckLastMatch(_, _)
CheckLastMatch(decorator_list, target_vars) ==
    IF decorator_list = <<>> THEN NoMatch
    ELSE LET d == Last(decorator_list)
         IN IF DecoratorMatches(d, target_vars)
            THEN [is_endpoint |-> TRUE,
                  method |-> StrUpper(AttrName(d.func)),
                  route |-> DecoratorRoute(d)]
            ELSE CheckLastMatch(Front(decorator_list), target_vars)

\* _check_endpoint: the loop over node.decorator_list, left at the first match.
RECURSIVE CheckEndpoint(_, _)
CheckEndpoint(decorator_list, target_vars) ==
    IF decorator_list = <<>> THEN NoMatch
    ELSE LET d == Head(decorator_list)
         IN IF DecoratorMatches(d, target_vars)
            THEN [is_endpoint |-> TRUE,
                  method |-> StrUpper(AttrName(d.func)),
                  route |-> DecoratorRoute(d)]
            ELSE CheckEndpoint(Tail(decorator_list), target_vars)

\* ast.get_source_segment(source, node): the lines node.lineno..node.end_lineno.
GetSourceSegment(node) ==
    StrJoin(SubSeq(node.lines, node.lineno, node.end_lineno), "\n")

CleanName(relative_path) ==
    StrUpper(StrReplace(StrReplace(StrReplace(relative_path, ".py", ""), ".", "_"), "/", "_"))

EndpointId(repo_name, relative_path, func_name, idx) ==
    StrUpper(repo_name) \o "_" \o CleanName(relative_path) \o "_" \o func_name
        \o "_" \o IntToStr(idx)

\* _add_endpoint: the record appended to found_endpoints.
AddEndpoint(found_endpoints, node, method, route, relative_path, repo_name) ==
    LET code_segment == GetSourceSegment(node)
    IN Append(found_endpoints,
              [id |-> EndpointId(repo_name, relative_path, node.name, Len(found_endpoints)),
               source |-> relative_path,
               method |-> method,
               route |-> route,
               function_name |-> node.name,
               code |-> code_segment,
               metadata |-> [has_async |-> node.is_async,
                             lines |-> IF code_segment # ""
                                       THEN StrCount(code_segment, "\n") + 1 ELSE 0]])

\* visitor.visit(tree): every FunctionDef and AsyncFunctionDef of the tree,
\* at any depth, in source order.
RECURSIVE VisitFrom(_, _, _, _, _)
VisitFrom(body, found_endpoints, target_vars, relative_path, repo_name) ==
    IF body = <<>> THEN found_endpoints
    ELSE LET node == Head(body)
             res == CheckEndpoint(node.decorator_list, target_vars)
         IN IF node.k = "FunctionDef" /\ res.is_endpoint
            THEN VisitFrom(Tail(body),
                           AddEndpoint(found_endpoints, node, res.method, res.route,
                                       relative_path, repo_name),
                           target_vars, relative_path, repo_name)
            ELSE VisitFrom(Tail(body), found_endpoints, target_vars, relative_path, repo_name)

\* (a visitor without generic_visit would stop at the module body)
VisitModuleBody(body, target_vars, relative_path, repo_name) ==
    VisitFrom(SelectDepth(body, 0), <<>>, target_vars, relative_path, repo_name)

Visit(body, target_vars, relative_path, repo_name) ==
    VisitFrom(body, <<>>, target_vars, relative_path, repo_name)


(***************************************************************************)
(* The checkouts the extractor is run on                                   *)
(***************************************************************************)
\* Statements of FastAPI sources.
ImportFastAPI == ImportFrom(0, 0, "fastapi", <<Alias("FastAPI", "")>>)
ImportAPIRouter == ImportFrom(0, 0, "fastapi", <<Alias("APIRouter", "")>>)
AppAssign(v) == Assign(0, NameExpr(<<v>>), CallValue(NameExpr(<<"FastAPI">>)))
RouterAssign(v) == Assign(0, NameExpr(<<v>>), CallValue(NameExpr(<<"APIRouter">>)))
\* @recv.verb('path')
Route(recv, verb, path) ==
    Decorator(TRUE, NameExpr(<<recv, verb>>), <<StrConst(path)>>, <<>>,
              "@" \o recv \o "." \o verb \o "('" \o path \o "')")
Handler(name, decorator_list) ==
    FunctionDef(0, name, FALSE, decorator_list, <<"def " \o name \o "():", "    return []">>)
AsyncHandler(depth, name, decorator_list) ==
    FunctionDef(depth, name, TRUE, decorator_list,
                <<"async def " \o name \o "():", "    items = []", "    return items">>)
\* recv.include_router(<dotted name>)
Include(recv, ids) == CallStmt(0, NameExpr(<<recv, "include_router">>), <<NameExpr(ids)>>)
Python(body) == SourceFile("ok", FALSE, body)

\* The decorators the generated handler is built from.
DecoratorMenu ==
    { Route("app", "get", "/users"),
      Route("app", "post", "/"),
      Route("router", "put", "/r"),
      Route("app", "middleware", "http"),
      Decorator(TRUE, NameExpr(<<"app", "delete">>), <<NameExpr(<<"ITEM_PATH">>)>>, <<>>,
                "@app.delete(ITEM_PATH)"),
      Decorator(TRUE, NameExpr(<<"app", "patch">>), <<>>,
                <<Keyword("path", StrConst("/kw"))>>, "@app.patch(path='/kw')"),
      Decorator(TRUE, NameExpr(<<"app", "head">>), <<IntConst("42")>>, <<>>, "@app.head(42)"),
      Decorator(TRUE, NameExpr(<<"self", "app", "get">>), <<StrConst("/s")>>, <<>>,
                "@self.app.get('/s')"),
      Decorator(FALSE, NameExpr(<<"cached">>), <<>>, <<>>, "@cached") }

RECURSIVE DecoratorLists(_)
DecoratorLists(n) ==
    IF n = 0 THEN {<<>>}
    ELSE DecoratorLists(n - 1)
            \cup {Append(l, d) : l \in {l \in DecoratorLists(n - 1) : Len(l) = n - 1},
                                 d \in DecoratorMenu}

InRepo(parts) == TargetDir \o parts
MainPy == InRepo(<<"main.py">>)
AppPy == InRepo(<<"app.py">>)
UsersPy == InRepo(<<"users.py">>)
RootInit == InRepo(<<"__init__.py">>)
Readme == InRepo(<<"README.md">>)
TextFile == SourceFile("unreadable", FALSE, <<>>)

\* One application file with a generated handler f, then a nested async
\* handler.
HandlerProjects ==
    { MainPy :> Python(<<ImportFastAPI, AppAssign("app"), Handler("f", l),
                         AsyncHandler(1, "g", <<Route("app", "options", "/g")>>)>>)
        : l \in DecoratorLists(MaxDecorators) }

\* Scenario A of the specification.
ScenarioA ==
    MainPy :> Python(<<ImportFastAPI, AppAssign("app"),
                        Handler("list_users", <<Route("app", "get", "/users")>>)>>)

\* Scenario A in a file whose tree is too deep for NodeVisitor's recursion
\* (a sum of some 500 terms): the scan and ast.parse pass, visit() raises.
DeepApp == MainPy :> [ScenarioA[MainPy] EXCEPT !.st = "deep"]

\* No application object anywhere: the main.py/app.py fallback.
FallbackProjects ==
    { (MainPy :> m)
        @@ (AppPy :> Python(<<Handler("ping", <<Route(v, "get", "/ping")>>)>>))
        : v \in {"app", "application"},
          m \in {Python(<<Handler("root", <<Route("app", "get", "/")>>)>>),
                 SourceFile("syntax", FALSE, <<>>)} }

\* A checkout without Python files, and no checkout at all.
EmptyProjects == { Readme :> TextFile, <<"validator.py">> :> Python(<<>>) }

\* An application file: its imports, the application object, then the
\* include_router calls and the handlers.
Main(imports, includes, handlers) ==
    Python(<<ImportFastAPI>> \o imports \o <<AppAssign("app")>> \o includes \o handlers)

\* import users / from . import users, and app.include_router(users.router)
ImportUsersForms ==
    { Import(0, <<Alias("users", "")>>),
      ImportFrom(0, 1, "", <<Alias("users", "")>>) }
MainScenarioB(import) == Main(<<import>>, <<Include("app", <<"users", "router">>)>>, <<>>)

\* from <level dots><module> import shared; app.include_router(shared.router)
MainLevels(level, module) ==
    Main(<<ImportFrom(0, level, module, <<Alias("shared", "")>>)>>,
         <<Include("app", <<"shared", "router">>), Include("app", <<"router">>)>>,
         <<Handler("home", <<Route("app", "get", "/")>>)>>)

\* The longest run of leading dots of the relative imports above.
MaxLevel == 3

IncludeMains ==
    {MainScenarioB(i) : i \in ImportUsersForms}
    \cup {MainLevels(l, m) : l \in 1..MaxLevel, m \in {"", "validator"}}
    \cup
    { \* from users import router; app.include_router(router)
      Main(<<ImportFrom(0, 0, "users", <<Alias("router", "")>>)>>,
           <<Include("app", <<"router">>)>>,
           <<Handler("home", <<Route("app", "get", "/")>>)>>),
      \* from .users import router as users_router; a name never bound
      Main(<<ImportFrom(0, 1, "users", <<Alias("router", "users_router")>>)>>,
           <<Include("app", <<"missing">>), Include("app", <<"users_router">>)>>, <<>>),
      \* from users import r1, r2; both included
      Main(<<ImportFrom(0, 0, "users", <<Alias("r1", ""), Alias("r2", "")>>)>>,
           <<Include("app", <<"r1">>), Include("app", <<"r2">>)>>, <<>>),
      \* a router of the file itself
      Main(<<ImportAPIRouter>>,
           <<RouterAssign("router"), Include("app", <<"router">>)>>,
           <<Handler("local", <<Route("router", "get", "/local")>>),
             Handler("home", <<Route("app", "get", "/")>>)>>),
      \* a router imported from a package outside the checkout, then rebound
      Main(<<ImportAPIRouter, ImportFrom(0, 0, "thirdparty", <<Alias("router", "")>>)>>,
           <<RouterAssign("router"), Include("app", <<"router">>)>>,
           <<Handler("local", <<Route("router", "get", "/local")>>)>>),
      \* a router made and included inside a function
      Main(<<ImportAPIRouter>>,
           <<Assign(1, NameExpr(<<"router">>), CallValue(NameExpr(<<"APIRouter">>))),
             CallStmt(1, NameExpr(<<"app", "include_router">>), <<NameExpr(<<"router">>)>>)>>,
           <<>>),
      \* calls the walker must pass over: another receiver, an argument that
      \* is no name
      Main(<<ImportFrom(0, 0, "users", <<Alias("router", "")>>)>>,
           <<Include("other", <<"router">>),
             CallStmt(0, NameExpr(<<"app", "include_router">>), <<OtherExpr(<<>>)>>),
             CallStmt(0, NameExpr(<<"app", "add_middleware">>), <<NameExpr(<<"router">>)>>)>>,
           <<>>) }

\* Scenario B's users.py
ScenarioBUsers ==
    Python(<<ImportAPIRouter, RouterAssign("router"),
             Handler("create", <<Route("router", "post", "/")>>)>>)

\* a users.py that includes the application back
UsersIncludesApp ==
    Python(<<ImportAPIRouter, ImportFrom(0, 0, "main", <<Alias("app", "")>>),
             RouterAssign("router"), Include("router", <<"app">>),
             Handler("create", <<Route("router", "post", "/")>>)>>)

UsersFiles ==
    { ScenarioBUsers,
      \* two routers
      Python(<<ImportAPIRouter, RouterAssign("r1"), RouterAssign("r2"),
               Handler("fa", <<Route("r1", "get", "/a")>>),
               Handler("fb", <<Route("r2", "get", "/b")>>)>>),
      UsersIncludesApp,
      SourceFile("syntax", FALSE, <<>>),
      SourceFile("unreadable", FALSE, <<>>),
      SourceFile("deep", FALSE,
                 <<RouterAssign("router"), Handler("create", <<Route("router", "post", "/")>>)>>) }

\* The benchmark's own validator.py, in the working directory.
ValidatorPy == <<"validator.py">>

IncludeProjects ==
    {(MainPy :> m) @@ (ValidatorPy :> Python(<<>>)) : m \in IncludeMains}
    \cup {(MainPy :> m) @@ (UsersPy :> u) @@ (ValidatorPy :> Python(<<>>))
            : m \in IncludeMains, u \in UsersFiles}
    \cup {(MainPy :> m) @@ (UsersPy :> u) @@ (RootInit :> Python(<<>>))
            : m \in IncludeMains, u \in UsersFiles}

\* Scenario D of the specification, with routers a module or a package.
ApiInit == InRepo(<<"api", "__init__.py">>)
RoutersFile ==
    Python(<<ImportAPIRouter, RouterAssign("users_router"),
             Handler("list_users", <<Route("users_router", "get", "/users")>>)>>)
ScenarioDMain ==
    Main(<<ImportFrom(0, 0, "api", <<Alias("router", "")>>)>>,
         <<Include("app", <<"router">>)>>, <<>>)
ScenarioDInit ==
    Python(<<ImportFrom(0, 1, "routers", <<Alias("users_router", "router")>>)>>)
ScenarioD ==
    { (MainPy :> ScenarioDMain) @@ (ApiInit :> ScenarioDInit) @@ (InRepo(routers) :> RoutersFile)
        : routers \in {<<"api", "routers.py">>, <<"api", "routers", "__init__.py">>} }

\* Two router modules whose paths differ only in '/' against '_'.
TwinProjects ==
    { (MainPy :> Main(<<ImportFrom(0, 0, "api.users", <<Alias("router", "r1")>>),
                        ImportFrom(0, 0, "api_users", <<Alias("router", "r2")>>)>>,
                      <<Include("app", <<"r1">>), Include("app", <<"r2">>)>>, <<>>))
      @@ (InRepo(<<"api", "users.py">>) :> u) @@ (InRepo(<<"api_users.py">>) :> u)
        : u \in {u \in UsersFiles : u.st = "ok"} }

\* Two application files side by side, each including one router of users.py.
TwoApps ==
    { (MainPy :> Main(<<ImportFrom(0, 0, "users", <<Alias("r1", "")>>)>>,
                      <<Include("app", <<"r1">>)>>, <<>>))
      @@ (AppPy :> Main(<<ImportFrom(0, 0, "users", <<Alias("r2", "")>>)>>,
                        <<Include("app", <<"r2">>)>>,
                        <<Handler("ping", <<Route("app", "get", "/ping")>>)>>))
      @@ (UsersPy :> u) : u \in UsersFiles }

\* A directory whose name holds a byte that is not UTF-8: os.fsdecode gives
\* the str a lone surrogate, written Surrogate here.
Surrogate == "?"
CafeMainPy == InRepo(<<"caf" \o Surrogate, "main.py">>)

\* Such a directory with a main.py that fails while it is handled: a
\* malformed one that the fallback picks up beside app.py, and an
\* application file too deep to visit beside Scenario A.
SurrogateProjects ==
    { (CafeMainPy :> SourceFile("syntax", FALSE, <<>>))
        @@ (AppPy :> Python(<<Handler("ping", <<Route("app", "get", "/ping")>>)>>)),
      (CafeMainPy :> DeepApp[MainPy]) @@ ScenarioA }

\* Scenario A beside a file that the application never includes.
UnrelatedProjects == {ScenarioA @@ (UsersPy :> u) : u \in UsersFiles}

\* Scenario A beside an app.py that constructs no application object.
EntryBesideApp ==
    ScenarioA @@ (AppPy :> Python(<<Handler("ping", <<Route("app", "get", "/ping")>>)>>))

\* An application object kept in an attribute, which the scan passes over.
AttributeApp ==
    MainPy :> Python(<<ImportFastAPI,
                       Assign(1, NameExpr(<<"self", "app">>), CallValue(NameExpr(<<"FastAPI">>))),
                       Handler("root", <<Route("app", "get", "/")>>)>>)

\* An application inside a package whose directory name holds a dot, beside
\* a module named like the part of that name before the dot.
DottedPackage ==
    (InRepo(<<"pkg.v1", "main.py">>) :> MainScenarioB(ImportFrom(0, 1, "", <<Alias("users", "")>>)))
        @@ (InRepo(<<"pkg.v1", "__init__.py">>) :> Python(<<>>))
        @@ (InRepo(<<"pkg.v1", "users.py">>) :> ScenarioBUsers)
        @@ (InRepo(<<"pkg.py">>) :> Python(<<>>))

\* A module users.py beside a package users/ of the same dotted name.
ModuleAndPackage ==
    (MainPy :> Main(<<ImportFrom(0, 0, "users", <<Alias("router", "")>>)>>,
                    <<Include("app", <<"router">>)>>, <<>>))
        @@ (UsersPy :> ScenarioBUsers)
        @@ (InRepo(<<"users", "__init__.py">>) :>
                Python(<<ImportAPIRouter, RouterAssign("router"),
                         Handler("remove", <<Route("router", "delete", "/")>>)>>))

\* The checkout a package itself: `from . import users [as u]` in main.py,
\* with users a subpackage, alone or beside a module users.py.
UsersPackageInit ==
    Python(<<ImportAPIRouter, RouterAssign("router"),
             Handler("remove", <<Route("router", "delete", "/")>>)>>)
PackageSiblings ==
    { (MainPy :> m) @@ (RootInit :> Python(<<>>))
        @@ (InRepo(<<"users", "__init__.py">>) :> UsersPackageInit) @@ extra
        : m \in { MainScenarioB(ImportFrom(0, 1, "", <<Alias("users", "")>>)),
                  Main(<<ImportFrom(0, 1, "", <<Alias("users", "u")>>)>>,
                       <<Include("app", <<"u", "router">>)>>, <<>>) },
          extra \in { UsersPy :> ScenarioBUsers, Readme :> TextFile } }

\* A router reached through two attributes: `from . import api` and
\* app.include_router(api.v1.router), api.py decorating through v1.router
\* and through v1.
ChainedInclude ==
    (MainPy :> Main(<<ImportFrom(0, 1, "", <<Alias("api", "")>>)>>,
                    <<Include("app", <<"api", "v1", "router">>)>>, <<>>))
        @@ (RootInit :> Python(<<>>))
        @@ (InRepo(<<"api.py">>) :>
                Python(<<Import(0, <<Alias("v1", "")>>),
                         Handler("items",
                                 <<Decorator(TRUE, NameExpr(<<"v1", "router", "get">>),
                                             <<StrConst("/items")>>, <<>>,
                                             "@v1.router.get('/items')")>>),
                         Handler("odd", <<Route("v1", "get", "/odd")>>)>>))

\* An application object made inside a factory function only.
FactoryApp ==
    MainPy :> Python(<<ImportFastAPI,
                       Assign(1, NameExpr(<<"application">>), CallValue(NameExpr(<<"FastAPI">>))),
                       Handler("x", <<Route("application", "get", "/x")>>)>>)

\* Two entry points, one of them including a router of the other.
IncludedEntry ==
    (MainPy :> Main(<<ImportFrom(0, 0, "users", <<Alias("router", "")>>)>>,
                    <<Include("app", <<"router">>)>>,
                    <<Handler("home", <<Route("app", "get", "/")>>)>>))
        @@ (UsersPy :> Python(<<ImportFastAPI, ImportAPIRouter, AppAssign("api"),
                                RouterAssign("router"),
                                Handler("create", <<Route("router", "post", "/")>>),
                                Handler("health", <<Route("api", "get", "/health")>>)>>))

\* A router of the file itself, included beside a name whose import climbs
\* above the working directory.
LocalBesideClimbing ==
    MainPy :> Main(<<ImportAPIRouter, ImportFrom(0, 3, "", <<Alias("shared", "")>>)>>,
                   <<RouterAssign("router"), Include("app", <<"shared", "router">>),
                     Include("app", <<"router">>)>>,
                   <<Handler("local", <<Route("router", "get", "/local")>>),
                     Handler("home", <<Route("app", "get", "/")>>)>>)

\* Python files, but neither an application object nor a main.py or app.py.
NoEntryProjects == {UsersPy :> u : u \in UsersFiles}

Projects ==
    HandlerProjects \cup {ScenarioA, DeepApp} \cup UnrelatedProjects \cup FallbackProjects
        \cup EmptyProjects
        \cup IncludeProjects \cup ScenarioD \cup TwinProjects \cup TwoApps
        \cup SurrogateProjects \cup {EntryBesideApp, AttributeApp, DottedPackage, ModuleAndPackage}
        \cup NoEntryProjects \cup PackageSiblings \cup {ChainedInclude, FactoryApp, IncludedEntry, LocalBesideClimbing}

(***************************************************************************)
(* State                                                                   *)
(***************************************************************************)
VARIABLES
    fs,               \* the files on disk: path -> SourceFile (never changed)
    pc,               \* where extract_endpoints stands
    module_map,       \* self._module_map: dotted module name -> path
    entry_points,     \* the list of (path, variable) of _find_entry_points
    queue,            \* the list of (file, router_vars) still to handle
    processed_files,  \* the set processed_files
    endpoints,        \* the list endpoints, returned at the end
    parse_count,      \* path -> number of ast.parse calls on it in this run
    last,             \* what the latest step did (for the properties)
    run,              \* 1 for the first call of extract_endpoints, 2 for a second
    previous,         \* the list the first call returned
    stdout_errors,    \* the error handler of sys.stdout (never changed)
    bench_pc,         \* where run_repo_benchmark stands ("direct": not running)
    clients,          \* the list clients, as file suffixes (never changed)
    run_id,           \* the argument run_id (never changed)
    repo_idx,         \* the position of repo_url in repos
    client_idx,       \* the position of item in clients
    result_files,     \* the files under results/repositorios
    results_summary,  \* the list results_summary
    cloned,           \* the repositories whose clone_repository() succeeded
    cleaned,          \* the repositories whose collector.cleanup() was called
    bench_last        \* what the latest step of run_repo_benchmark did

\* The state of run_repo_benchmark.
benchvars == <<bench_pc, clients, run_id, repo_idx, client_idx, result_files,
               results_summary, cloned, cleaned, bench_last>>

vars == <<fs, pc, module_map, entry_points, queue, processed_files, endpoints,
          parse_count, last, run, previous, stdout_errors, benchvars>>

(***************************************************************************)
(* The file system                                                         *)
(***************************************************************************)
IsFile(p) == p \in DOMAIN fs
IsProperPrefix(p, q) == IsPrefix(p, q) /\ p # q
Directories == UNION {{SubSeq(q, 1, n) : n \in 0..(Len(q) - 1)} : q \in DOMAIN fs}
IsDir(p) == p \in Directories
\* Path.exists()
Exists(p) == IsFile(p) \/ IsDir(p)
\* open(p).read() raises: not a regular file, or unreadable as UTF-8
ReadFails(p) == ~IsFile(p) \/ fs[p].st = "unreadable"
\* ast.parse raises SyntaxError
ParseFails(p) == fs[p].st = "syntax"
\* NodeVisitor.visit raises RecursionError
VisitFails(p) == fs[p].st = "deep"
\* The statements of a file that parses.
TreeOf(p) == fs[p].body

\* Path.glob walks top-down: the entries of a directory are yielded before
\* those of its subdirectories; the order among siblings is os.scandir's,
\* which is arbitrary.
GlobBefore(p, q) == IsProperPrefix(PathParent(p), PathParent(q))

\* The orders in which a glob can yield the paths S.
RECURSIVE GlobOrders(_)
GlobOrders(S) ==
    IF S = {} THEN {<<>>}
    ELSE UNION {{<<a>> \o rest : rest \in GlobOrders(S \ {a})} :
                a \in {a \in S : ~\E b \in S : GlobBefore(b, a)}}

\* The orders in which iterating a set of str can yield its members: the
\* order follows the hashes, which differ from one interpreter run to another.
RECURSIVE SetOrders(_)
SetOrders(S) ==
    IF S = {} THEN {<<>>}
    ELSE UNION {{<<a>> \o rest : rest \in SetOrders(S \ {a})} : a \in S}

\* (a glob of "<name>" without the leading "**/": the root's own entries only)
GlobNameTop(root, name) ==
    {p \in (DOMAIN fs) \cup Directories : PathParent(p) = root /\ PathName(p) = name}

\* (a glob of "**/*.py" in the place of "**/<name>")
GlobAnyPy(root, name) ==
    {p \in (DOMAIN fs) \cup Directories : IsProperPrefix(root, p) /\ EndsWith(PathName(p), ".py")}

\* repo_path.glob("**/<name>") and repo_path.glob("**/*.py")
GlobName(root, name) ==
    {p \in (DOMAIN fs) \cup Directories : IsProperPrefix(root, p) /\ PathName(p) = name}
GlobPy(root) ==
    {p \in (DOMAIN fs) \cup Directories : IsProperPrefix(root, p) /\ EndsWith(PathName(p), ".py")}

\* current_file.relative_to(repo_path) raises ValueError for a path outside
RelativeToRaises(p, root) == ~IsPrefix(root, p)
RelativeTo(p, root) == SubSeq(p, Len(root) + 1, Len(p))
\* str(path)
PathStr(p) == StrJoin(p, "/")

(***************************************************************************)
(* _build_module_map                                                       *)
(***************************************************************************)
\* The key a path is stored under, '' when it gets no entry.
ModuleNameOf(path, root) ==
    LET rel == RelativeTo(path, root)
        stem == StrReplace(Last(rel), ".py", "")
        parts == IF stem = "__init__" THEN Front(rel) ELSE Append(Front(rel), stem)
    IN IF parts # <<>> THEN StrJoin(parts, ".") ELSE ""

ModuleNames(root) == {ModuleNameOf(p, root) : p \in GlobPy(root)} \ {""}

\* The entry a name ends with is the last path the glob yields for it.
LastYielded(name, root) ==
    LET cands == {p \in GlobPy(root) : ModuleNameOf(p, root) = name}
    IN {p \in cands : ~\E q \in cands : GlobBefore(p, q)}

RECURSIVE ModuleMapsOver(_, _)
ModuleMapsOver(names, root) ==
    IF names = {} THEN {<<>>}
    ELSE UNION {{(n :> p) @@ m : p \in LastYielded(n, root),
                                m \in ModuleMapsOver(names \ {n}, root)} :
                n \in {CHOOSE n \in names : TRUE}}

\* Every map the loop can leave, over the orders of the glob.
BuildModuleMap(root) == UNION {ModuleMapsOver(names, root) : names \in {ModuleNames(root)}}


(***************************************************************************)
(* _find_entry_points, _scan_for_fastapi_instance                          *)
(***************************************************************************)
HasFastAPI(ids) == \E i \in DOMAIN ids : StrContains(ids[i], "FastAPI")

\* The text of a statement holds the word FastAPI.
StmtMentions(s) ==
    CASE s.k = "Assign" -> s.value.call /\ HasFastAPI(s.value.func.ids)
      [] s.k = "ImportFrom" ->
            \E i \in DOMAIN s.names : HasFastAPI(<<s.names[i].name, s.names[i].asname>>)
      [] OTHER -> FALSE

\* "FastAPI" in f.read()
TextHasFastAPI(path) ==
    fs[path].text_mentions \/ \E i \in DOMAIN fs[path].body : StmtMentions(fs[path].body[i])

\* FastAPI(...) or xxx.FastAPI(...)
IsFastapiCall(value) ==
    /\ value.call
    /\ \/ IsName(value.func) /\ value.func.ids[1] = "FastAPI"
       \/ IsAttribute(value.func) /\ AttrName(value.func) = "FastAPI"

\* The Assign nodes _scan_for_fastapi_instance returns from, in ast.walk order.
FastapiAssigns(body) ==
    SelectSeq(AstWalk(body),
              LAMBDA s : s.k = "Assign" /\ IsFastapiCall(s.value) /\ IsName(s.target))

\* _scan_for_fastapi_instance(path): "raise", "none" (returns None) or "var".
ScanForFastapiInstance(path) ==
    IF ReadFails(path) THEN [kind |-> "raise", var |-> NoneName, parsed |-> FALSE]
    ELSE IF ~TextHasFastAPI(path) THEN [kind |-> "none", var |-> NoneName, parsed |-> FALSE]
    ELSE IF ParseFails(path) THEN [kind |-> "raise", var |-> NoneName, parsed |-> TRUE]
    ELSE IF FastapiAssigns(TreeOf(path)) # <<>>
         THEN [kind |-> "var", var |-> FastapiAssigns(TreeOf(path))[1].target.ids[1],
               parsed |-> TRUE]
         ELSE [kind |-> "none", var |-> NoneName, parsed |-> TRUE]

\* _find_entry_points: the lists `found` the loop can build, one per glob order.
FindEntryPoints(root) ==
    LET hits == {p \in GlobPy(root) : ScanForFastapiInstance(p).kind = "var"}
    IN {[i \in DOMAIN order |-> <<order[i], ScanForFastapiInstance(order[i]).var>>] :
            order \in GlobOrders(hits)}

(***************************************************************************)
(* _find_includes                                                          *)
(***************************************************************************)
\* get_full_name(node): the dotted name, '' for None.
RECURSIVE GetFullName(_)
GetFullName(node) ==
    IF IsName(node) THEN node.ids[1]
    ELSE IF IsAttribute(node)
         THEN LET value == GetFullName(AttrValue(node))
              IN IF value # "" THEN value \o "." \o AttrName(node) ELSE ""
         ELSE ""

\* (any receiver with a dotted name, known parent or not)
IsIncludeOnAnyCaller(node, known_parents) ==
    /\ node.k = "Call"
    /\ IsAttribute(node.func)
    /\ AttrName(node.func) = "include_router"
    /\ GetFullName(AttrValue(node.func)) # ""
    /\ node.args # <<>>
    /\ GetFullName(node.args[1]) # ""

\* A call <caller>.include_router(<arg0>, ...) with caller in known_parents
\* and arg0 a dotted name.
IsInclude(node, known_parents) ==
    /\ node.k = "Call"
    /\ IsAttribute(node.func)
    /\ AttrName(node.func) = "include_router"
    /\ GetFullName(AttrValue(node.func)) # ""
    /\ GetFullName(AttrValue(node.func)) \in known_parents
    /\ node.args # <<>>
    /\ GetFullName(node.args[1]) # ""

FindIncludes(body, known_parents) ==
    {GetFullName(body[i].args[1]) : i \in {i \in DOMAIN body : IsInclude(body[i], known_parents)}}

(***************************************************************************)
(* _resolve_import_path, _resolve_variable_origin                          *)
(***************************************************************************)
NoPath == [kind |-> "none", path |-> <<>>]
PathRaise == [kind |-> "raise", path |-> <<>>]
FoundPath(p) == [kind |-> "path", path |-> p]

RECURSIVE Ancestor(_, _)
Ancestor(dir, n) == IF n = 0 THEN dir ELSE Ancestor(PathParent(dir), n - 1)

\* The two probes: <target>.py, then <target>/__init__.py.
ProbeTarget(target) ==
    IF WithSuffixRaises(target) THEN PathRaise
    ELSE IF Exists(WithSuffix(target, ".py")) THEN FoundPath(WithSuffix(target, ".py"))
    ELSE IF Exists(PathJoin(target, <<"__init__.py">>))
         THEN FoundPath(PathJoin(target, <<"__init__.py">>))
         ELSE NoPath

\* (a resolver that never consults the module map)
ResolveByProbe(current_file, module, level) ==
    IF level > 0
    THEN LET base_dir == Ancestor(PathParent(current_file), level - 1)
             target == IF module # "" THEN PathJoin(base_dir, StrSplit(module, "."))
                       ELSE base_dir
         IN ProbeTarget(target)
    ELSE IF module = "" THEN NoPath
    ELSE ProbeTarget(PathJoin(TargetDir, StrSplit(module, ".")))

ResolveImportPath(current_file, module, level) ==
    IF level > 0
    THEN LET base_dir == Ancestor(PathParent(current_file), level - 1)
             target == IF module # "" THEN PathJoin(base_dir, StrSplit(module, "."))
                       ELSE base_dir
         IN ProbeTarget(target)
    ELSE IF module = "" THEN NoPath
    ELSE IF module \in DOMAIN module_map THEN FoundPath(module_map[module])
    ELSE ProbeTarget(PathJoin(TargetDir, StrSplit(module, ".")))

NoOrigin == [kind |-> "none", file |-> <<>>, name |-> NoneName]
OriginRaise == [kind |-> "raise", file |-> <<>>, name |-> NoneName]
Origin(file, name) == [kind |-> "origin", file |-> file, name |-> name]

\* The (ImportFrom node, alias) pairs of a tree in the order the resolver
\* meets them.
RECURSIVE AliasPairs(_)
AliasPairs(nodes) ==
    IF nodes = <<>> THEN <<>>
    ELSE [i \in DOMAIN Head(nodes).names |-> <<Head(nodes), Head(nodes).names[i]>>]
            \o AliasPairs(Tail(nodes))

\* 2. a local assignment to a simple Name, anywhere in the tree
LocalAssignment(body, current_file, var_name) ==
    IF \E i \in DOMAIN body :
          body[i].k = "Assign" /\ IsName(body[i].target) /\ body[i].target.ids[1] = var_name
    THEN Origin(current_file, var_name)
    ELSE NoOrigin

\* (the subpackage tried before the sibling module)
PackageBeforeModule(resolved_path, orig_name) ==
    LET candidate_sub == PathJoin(PathParent(resolved_path), <<orig_name \o ".py">>)
        candidate_pkg == PathJoin(PathParent(resolved_path), <<orig_name, "__init__.py">>)
    IN IF PathName(resolved_path) = "__init__.py" /\ Exists(candidate_pkg)
       THEN Origin(candidate_pkg, NoneName)
       ELSE IF PathName(resolved_path) = "__init__.py" /\ Exists(candidate_sub)
            THEN Origin(candidate_sub, NoneName)
            ELSE Origin(resolved_path, orig_name)

\* What a resolved from-import returns: a sibling module or subpackage named
\* like the imported name when the import resolved to a package __init__.py,
\* else the resolved file with the imported name.
ImportTarget(resolved_path, orig_name) ==
    LET candidate_sub == PathJoin(PathParent(resolved_path), <<orig_name \o ".py">>)
        candidate_pkg == PathJoin(PathParent(resolved_path), <<orig_name, "__init__.py">>)
    IN IF PathName(resolved_path) = "__init__.py" /\ Exists(candidate_sub)
       THEN Origin(candidate_sub, NoneName)
       ELSE IF PathName(resolved_path) = "__init__.py" /\ Exists(candidate_pkg)
            THEN Origin(candidate_pkg, NoneName)
            ELSE Origin(resolved_path, orig_name)

\* 1. the from-imports; an import that matches but does not resolve is passed over
RECURSIVE ResolveFromImports(_, _, _, _)
ResolveFromImports(pairs, body, current_file, var_name) ==
    IF pairs = <<>> THEN LocalAssignment(body, current_file, var_name)
    ELSE LET node == Head(pairs)[1]
             alias == Head(pairs)[2]
             target_alias == IF alias.asname # "" THEN alias.asname ELSE alias.name
             resolved == ResolveImportPath(current_file, node.module, node.level)
         IN IF target_alias # var_name
            THEN ResolveFromImports(Tail(pairs), body, current_file, var_name)
            ELSE IF resolved.kind = "raise" THEN OriginRaise
            ELSE IF resolved.kind = "path" THEN ImportTarget(resolved.path, alias.name)
            ELSE ResolveFromImports(Tail(pairs), body, current_file, var_name)

ResolveVariableOrigin(body, current_file, var_name) ==
    CHOOSE result \in
        {ResolveFromImports(pairs, body, current_file, name) :
            pairs \in {AliasPairs(SelectSeq(AstWalk(body), LAMBDA s : s.k = "ImportFrom"))},
            name \in {var_name}} : TRUE


(***************************************************************************)
(* extract_endpoints: one pass of the while loop                           *)
(***************************************************************************)
Binding(file, var) == [file |-> file, vars |-> {var}]

\* The variable tracked in the target file (lines 121-126).
FinalTargetVar(included_var_name, target_var_look, resolved_name) ==
    IF resolved_name = NoneName THEN target_var_look
    ELSE IF ~StrContains(included_var_name, ".") THEN resolved_name
    ELSE target_var_look

\* lines 111-114: the name to resolve and the name to look for in the target
BaseModuleVar(included_var_name) ==
    IF StrContains(included_var_name, ".")
    THEN StrSplit(included_var_name, ".")[1] ELSE included_var_name
TargetVarLook(included_var_name) ==
    IF StrContains(included_var_name, ".")
    THEN StrSplit(included_var_name, ".")[2] ELSE included_var_name

\* (a walker that takes the Python files below the directory of the file,
\* whether the file includes them or not)
EnqueueSiblings(order, body, current_file) ==
    [enq |-> CHOOSE s \in SetOrders({Binding(p, "app") : p \in GlobPy(PathParent(current_file))}) :
                 TRUE,
     raised |-> FALSE]

\* (a loop that a name without origin would end: nothing is enqueued from
\* that name on)
RECURSIVE EnqueueUntilNull(_, _, _)
EnqueueUntilNull(order, body, current_file) ==
    IF order = <<>> THEN [enq |-> <<>>, raised |-> FALSE]
    ELSE CHOOSE result \in
            {IF origin.kind = "raise" THEN [enq |-> <<>>, raised |-> TRUE]
             ELSE IF origin.kind = "origin"
                  THEN [enq |-> <<Binding(origin.file,
                                          FinalTargetVar(included_var_name,
                                                         TargetVarLook(included_var_name),
                                                         origin.name))>> \o rest.enq,
                        raised |-> rest.raised]
                  ELSE [enq |-> <<>>, raised |-> FALSE] :
                included_var_name \in {Head(order)},
                origin \in {ResolveVariableOrigin(body, current_file,
                                                  BaseModuleVar(Head(order)))},
                rest \in {EnqueueUntilNull(Tail(order), body, current_file)}} : TRUE

\* The for loop over `includes`, taken in the given order: the bindings
\* appended to the queue, and whether a resolution raised and ended the loop.
\* (origin and rest are bound once each.)
RECURSIVE EnqueueIncludes(_, _, _)
EnqueueIncludes(order, body, current_file) ==
    IF order = <<>> THEN [enq |-> <<>>, raised |-> FALSE]
    ELSE CHOOSE result \in
            {IF origin.kind = "raise" THEN [enq |-> <<>>, raised |-> TRUE]
             ELSE IF origin.kind = "origin"
                  THEN [enq |-> <<Binding(origin.file,
                                          FinalTargetVar(included_var_name,
                                                         TargetVarLook(included_var_name),
                                                         origin.name))>> \o rest.enq,
                        raised |-> rest.raised]
                  ELSE rest :
                included_var_name \in {Head(order)},
                origin \in {ResolveVariableOrigin(body, current_file,
                                                  BaseModuleVar(Head(order)))},
                rest \in {EnqueueIncludes(Tail(order), body, current_file)}} : TRUE

Failure(cause, parsed) ==
    [found |-> <<>>, enq |-> <<>>, raised |-> TRUE, cause |-> cause, parsed |-> parsed]

\* (a visitor that appends to the output list as it goes)
ProcessFileEmittingAsVisited(current_file, router_vars, order) ==
    IF ReadFails(current_file) THEN Failure("read", FALSE)
    ELSE IF ParseFails(current_file) THEN Failure("parse", TRUE)
    ELSE IF RelativeToRaises(current_file, TargetDir) THEN Failure("relative_to", TRUE)
    ELSE IF VisitFails(current_file)
         THEN [Failure("visit", TRUE) EXCEPT
                  !.found = Visit(TreeOf(current_file), router_vars,
                                  PathStr(RelativeTo(current_file, TargetDir)), RepoName)]
    ELSE CHOOSE result \in
            {[found |-> Visit(TreeOf(current_file), router_vars, rel_path, RepoName),
              enq |-> inc.enq,
              raised |-> inc.raised,
              cause |-> IF inc.raised THEN "resolve" ELSE "",
              parsed |-> TRUE] :
                rel_path \in {PathStr(RelativeTo(current_file, TargetDir))},
                inc \in {IF router_vars # {}
                         THEN EnqueueIncludes(order, TreeOf(current_file), current_file)
                         ELSE [enq |-> <<>>, raised |-> FALSE]}} : TRUE

\* The body of the try block for one dequeued file: the records added to
\* endpoints, the bindings appended to the queue, and whether (and where) an
\* exception ended it.
ProcessFile(current_file, router_vars, order) ==
    IF ReadFails(current_file) THEN Failure("read", FALSE)
    ELSE IF ParseFails(current_file) THEN Failure("parse", TRUE)
    ELSE IF RelativeToRaises(current_file, TargetDir) THEN Failure("relative_to", TRUE)
    ELSE IF VisitFails(current_file) THEN Failure("visit", TRUE)
    ELSE CHOOSE result \in
            {[found |-> Visit(TreeOf(current_file), router_vars, rel_path, RepoName),
              enq |-> inc.enq,
              raised |-> inc.raised,
              cause |-> IF inc.raised THEN "resolve" ELSE "",
              parsed |-> TRUE] :
                rel_path \in {PathStr(RelativeTo(current_file, TargetDir))},
                inc \in {IF router_vars # {}
                         THEN EnqueueIncludes(order, TreeOf(current_file), current_file)
                         ELSE [enq |-> <<>>, raised |-> FALSE]}} : TRUE

\* The orders the set `includes` of a file can be iterated in.
IncludeOrders(current_file, router_vars) ==
    IF \/ ReadFails(current_file) \/ ParseFails(current_file)
       \/ RelativeToRaises(current_file, TargetDir) \/ VisitFails(current_file)
    THEN {<<>>}
    ELSE SetOrders(FindIncludes(TreeOf(current_file), router_vars))

\* sys.stdout.errors: 'strict', or 'surrogateescape' in the C and POSIX
\* locales and in UTF-8 mode.
StdoutErrors == {"strict", "surrogateescape"}

\* print(text) raises UnicodeEncodeError when the text holds a lone surrogate
\* and stdout encodes strictly.
PrintRaises(text) == stdout_errors = "strict" /\ StrContains(text, Surrogate)

\* except Exception as e: print(f"... {current_file}: {e}"); the loop goes on
\* unless the print itself raises, which leaves extract_endpoints.
AfterException(current_file) ==
    IF PrintRaises(PathStr(current_file)) THEN "raised" ELSE "loop"

\* _find_entry_points, `except: continue`: the scan goes on with the next path.
AfterScanException == "scanned"

\* (a loop without the processed check)
NeverProcessed(current_file) == FALSE

\* if current_file in processed_files: continue
AlreadyProcessed(current_file) == current_file \in processed_files

NoEvent ==
    [op |-> "none", file |-> <<>>, vars |-> {}, found |-> <<>>, enq |-> <<>>, cause |-> ""]
Event(op, file, router_vars, r) ==
    [op |-> op, file |-> file, vars |-> router_vars, found |-> r.found, enq |-> r.enq,
     cause |-> r.cause]

CountParse(path) ==
    [parse_count EXCEPT ![path] = @ + 1]

\* The record of the latest step of run_repo_benchmark.
NoBenchEvent == [op |-> "none", repo |-> 0, client |-> "", outcome |-> ""]
BenchEvent(op, repo, client, outcome) ==
    [op |-> op, repo |-> repo, client |-> client, outcome |-> outcome]

(***************************************************************************)
(* Actions                                                                 *)
(***************************************************************************)
\* lines 58-60: the target directory does not exist
NoDirectory ==
    /\ pc = "start"
    /\ ~Exists(TargetDir)
    /\ pc' = "done"
    /\ last' = [NoEvent EXCEPT !.op = "nodir"]
    /\ UNCHANGED <<fs, module_map, entry_points, queue, processed_files, endpoints,
                   parse_count, run, previous, stdout_errors>>
    /\ UNCHANGED benchvars

\* line 66: self._build_module_map(repo_path)
BuildModuleMapStep ==
    /\ pc = "start"
    /\ Exists(TargetDir)
    /\ module_map' \in BuildModuleMap(TargetDir)
    /\ pc' = "indexed"
    /\ last' = [NoEvent EXCEPT !.op = "index"]
    /\ UNCHANGED <<fs, entry_points, queue, processed_files, endpoints, parse_count,
                   run, previous, stdout_errors>>
    /\ UNCHANGED benchvars

\* line 69: entry_points = self._find_entry_points(repo_path)
FindEntryPointsStep ==
    /\ pc = "indexed"
    /\ entry_points' \in FindEntryPoints(TargetDir)
    /\ parse_count' = [p \in DOMAIN parse_count |->
                          IF p \in GlobPy(TargetDir) /\ ScanForFastapiInstance(p).parsed
                          THEN parse_count[p] + 1 ELSE parse_count[p]]
    /\ pc' = IF \E p \in GlobPy(TargetDir) : ScanForFastapiInstance(p).kind = "raise"
             THEN AfterScanException ELSE "scanned"
    /\ last' = [NoEvent EXCEPT !.op = "scan"]
    /\ UNCHANGED <<fs, module_map, queue, processed_files, endpoints, run, previous, stdout_errors>>
    /\ UNCHANGED benchvars

\* lines 78-81 when entry points were found
SeedEntryPoints ==
    /\ pc = "scanned"
    /\ entry_points # <<>>
    /\ queue' = [i \in DOMAIN entry_points |-> Binding(entry_points[i][1], entry_points[i][2])]
    /\ pc' = "loop"
    /\ last' = [NoEvent EXCEPT !.op = "seed"]
    /\ UNCHANGED <<fs, module_map, entry_points, processed_files, endpoints, parse_count,
                   run, previous, stdout_errors>>
    /\ UNCHANGED benchvars

\* lines 70-81 when none was found: every main.py, then every app.py, as 'app'
SeedFallback ==
    /\ pc = "scanned"
    /\ entry_points = <<>>
    /\ \E mains \in GlobOrders(GlobName(TargetDir, "main.py")),
          apps \in GlobOrders(GlobName(TargetDir, "app.py")) :
          /\ entry_points' = [i \in DOMAIN (mains \o apps) |-> <<(mains \o apps)[i], "app">>]
          /\ queue' = [i \in DOMAIN (mains \o apps) |-> Binding((mains \o apps)[i], "app")]
    /\ pc' = "loop"
    /\ last' = [NoEvent EXCEPT !.op = "fallback"]
    /\ UNCHANGED <<fs, module_map, processed_files, endpoints, parse_count, run, previous,
                   stdout_errors>>
    /\ UNCHANGED benchvars

\* lines 84-86: the dequeued file was processed before
SkipProcessed ==
    /\ pc = "loop"
    /\ queue # <<>>
    /\ AlreadyProcessed(Head(queue).file)
    /\ queue' = Tail(queue)
    /\ last' = [NoEvent EXCEPT !.op = "skip", !.file = Head(queue).file,
                               !.vars = Head(queue).vars]
    /\ UNCHANGED <<fs, pc, module_map, entry_points, processed_files, endpoints,
                   parse_count, run, previous, stdout_errors>>
    /\ UNCHANGED benchvars

\* (a stack: the bindings of a file are put in front of the waiting ones)
ProcessOkInFront ==
    /\ pc = "loop"
    /\ queue # <<>>
    /\ ~AlreadyProcessed(Head(queue).file)
    /\ \E order \in IncludeOrders(Head(queue).file, Head(queue).vars) :
       \E r \in {ProcessFile(Head(queue).file, Head(queue).vars, order)} :
             /\ ~r.raised
             /\ processed_files' = processed_files \cup {Head(queue).file}
             /\ endpoints' = endpoints \o r.found
             /\ queue' = r.enq \o Tail(queue)
             /\ parse_count' = CountParse(Head(queue).file)
             /\ last' = Event("process", Head(queue).file, Head(queue).vars, r)
    /\ UNCHANGED <<fs, pc, module_map, entry_points, run, previous, stdout_errors>>
    /\ UNCHANGED benchvars

\* lines 84-128: the dequeued file is processed and nothing raises
ProcessOk ==
    /\ pc = "loop"
    /\ queue # <<>>
    /\ ~AlreadyProcessed(Head(queue).file)
    /\ \E order \in IncludeOrders(Head(queue).file, Head(queue).vars) :
       \E r \in {ProcessFile(Head(queue).file, Head(queue).vars, order)} :
             /\ ~r.raised
             /\ processed_files' = processed_files \cup {Head(queue).file}
             /\ endpoints' = endpoints \o r.found
             /\ queue' = Tail(queue) \o r.enq
             /\ parse_count' = CountParse(Head(queue).file)
             /\ last' = Event("process", Head(queue).file, Head(queue).vars, r)
    /\ UNCHANGED <<fs, pc, module_map, entry_points, run, previous, stdout_errors>>
    /\ UNCHANGED benchvars

\* lines 84-131: an exception ends the try block and is caught
ProcessError ==
    /\ pc = "loop"
    /\ queue # <<>>
    /\ ~AlreadyProcessed(Head(queue).file)
    /\ \E order \in IncludeOrders(Head(queue).file, Head(queue).vars) :
       \E r \in {ProcessFile(Head(queue).file, Head(queue).vars, order)} :
             /\ r.raised
             /\ processed_files' = processed_files \cup {Head(queue).file}
             /\ endpoints' = endpoints \o r.found
             /\ queue' = Tail(queue) \o r.enq
             /\ parse_count' = IF r.parsed THEN CountParse(Head(queue).file) ELSE parse_count
             /\ last' = Event("error", Head(queue).file, Head(queue).vars, r)
    /\ pc' = AfterException(Head(queue).file)
    /\ UNCHANGED <<fs, module_map, entry_points, run, previous, stdout_errors>>
    /\ UNCHANGED benchvars

\* lines 83, 133-134: the queue is empty, the list is returned
Return ==
    /\ pc = "loop"
    /\ queue = <<>>
    /\ pc' = "done"
    /\ last' = [NoEvent EXCEPT !.op = "return"]
    /\ UNCHANGED <<fs, module_map, entry_points, queue, processed_files, endpoints,
                   parse_count, run, previous, stdout_errors>>
    /\ UNCHANGED benchvars

\* extract_endpoints is called again on the unchanged directory
Rerun ==
    /\ pc = "done"
    /\ run = 1
    /\ run' = 2
    /\ previous' = endpoints
    /\ pc' = "start"
    /\ module_map' = <<>>
    /\ entry_points' = <<>>
    /\ queue' = <<>>
    /\ processed_files' = {}
    /\ endpoints' = <<>>
    /\ parse_count' = [p \in DOMAIN parse_count |-> 0]
    /\ last' = [NoEvent EXCEPT !.op = "rerun"]
    /\ UNCHANGED <<fs, stdout_errors>>
    /\ UNCHANGED benchvars

Next ==
    \/ NoDirectory
    \/ BuildModuleMapStep
    \/ FindEntryPointsStep
    \/ SeedEntryPoints
    \/ SeedFallback
    \/ SkipProcessed
    \/ ProcessOk
    \/ ProcessError
    \/ Return
    \/ Rerun


Init ==
    /\ fs \in Projects
    /\ pc = "start"
    /\ module_map = <<>>
    /\ entry_points = <<>>
    /\ queue = <<>>
    /\ processed_files = {}
    /\ endpoints = <<>>
    /\ parse_count = [p \in DOMAIN fs |-> 0]
    /\ last = NoEvent
    /\ run = 1
    /\ previous = <<>>
    /\ stdout_errors \in StdoutErrors
    /\ bench_pc = "direct"
    /\ clients = <<>>
    /\ run_id = NoneName
    /\ repo_idx = 0
    /\ client_idx = 0
    /\ result_files = {}
    /\ results_summary = <<>>
    /\ cloned = {}
    /\ cleaned = {}
    /\ bench_last = NoBenchEvent

Spec == Init /\ [][Next]_vars

\* The loop is run to its end: no step of the call is left waiting for ever.
FairSpec == Spec /\ WF_vars(Next)

(***************************************************************************)
(* run_repo_benchmark (benchmark_repos.py)                                 *)
(*                                                                         *)
(* The repositories are cloned one after the other; the checkout of the    *)
(* repository at hand is held in fs under TargetDir, and the actions of    *)
(* extract_endpoints above run on it.                                      *)
(***************************************************************************)
\* len(repos)
NumRepos == 3

\* The lists `clients` that the configured API keys give.
ClientLists == {<<>>, <<"gemini">>, <<"gemini", "mistral">>}
\* run_id: None, or the number of the run
RunIds == {NoneName, "1"}

\* What a clone can bring to disk.
BenchProjects ==
    {ScenarioA, EntryBesideApp, Readme :> TextFile} \cup SurrogateProjects \cup TwoApps
\* No checkout on disk.
NoCheckout == [p \in {} |-> TextFile]

\* results/repositorios/repo_results_{suffix}_{repo_name}{run_suffix}.json
ResultFile(suffix, repo) == <<suffix, repo, run_id>>
\* The result files a former run without run_id can have left.
FormerResults == {{}, {<<"gemini", 1, NoneName>>}}

\* hasattr(collector, "skipped_files"): RepoCollector.__init__ sets repo_url,
\* repo_name, target_dir and _module_map, and nothing else ever sets it.
HasSkippedFiles == FALSE

\* if os.path.exists(filename) and run_id is None
ResultExists(suffix, repo) == ResultFile(suffix, repo) \in result_files /\ run_id = NoneName

SummaryEntry(suffix, repo) == [llm |-> suffix, repo |-> repo, filename |-> ResultFile(suffix, repo)]

\* The locals of extract_endpoints between two calls.
NoExtraction ==
    /\ module_map' = <<>>
    /\ entry_points' = <<>>
    /\ queue' = <<>>
    /\ processed_files' = {}
    /\ endpoints' = <<>>
    /\ parse_count' = [p \in DOMAIN fs' |-> 0]
    /\ last' = NoEvent
    /\ UNCHANGED <<run, previous, stdout_errors>>

\* lines 65-67: no client is configured
NoClients ==
    /\ bench_pc = "begin"
    /\ clients = <<>>
    /\ bench_pc' = "returned"
    /\ bench_last' = BenchEvent("noclients", 0, "", "")
    /\ UNCHANGED <<fs, pc, module_map, entry_points, queue, processed_files, endpoints,
                   parse_count, last, run, previous, stdout_errors>>
    /\ UNCHANGED <<clients, run_id, repo_idx, client_idx, result_files, results_summary,
                   cloned, cleaned>>

\* lines 69-75: the loop over repos is entered
StartRepos ==
    /\ bench_pc = "begin"
    /\ clients # <<>>
    /\ bench_pc' = "clone"
    /\ repo_idx' = 1
    /\ bench_last' = BenchEvent("start", 0, "", "")
    /\ UNCHANGED <<fs, pc, module_map, entry_points, queue, processed_files, endpoints,
                   parse_count, last, run, previous, stdout_errors>>
    /\ UNCHANGED <<clients, run_id, client_idx, result_files, results_summary, cloned, cleaned>>

\* lines 76-80: clone_repository() returns None
CloneFails ==
    /\ bench_pc = "clone"
    /\ repo_idx <= NumRepos
    /\ repo_idx' = repo_idx + 1
    /\ bench_last' = BenchEvent("clonefailed", repo_idx, "", "")
    /\ UNCHANGED <<fs, pc, module_map, entry_points, queue, processed_files, endpoints,
                   parse_count, last, run, previous, stdout_errors>>
    /\ UNCHANGED <<bench_pc, clients, run_id, client_idx, result_files, results_summary,
                   cloned, cleaned>>

\* lines 76-85: the clone succeeds and extract_endpoints is called
CloneSucceeds ==
    /\ bench_pc = "clone"
    /\ repo_idx <= NumRepos
    /\ fs' \in BenchProjects
    /\ pc' = "start"
    /\ NoExtraction
    /\ cloned' = cloned \cup {repo_idx}
    /\ bench_pc' = "extract"
    /\ bench_last' = BenchEvent("cloned", repo_idx, "", "")
    /\ UNCHANGED <<clients, run_id, repo_idx, client_idx, result_files, results_summary,
                   cleaned>>

\* collector.cleanup(): the checkout is removed
Cleanup ==
    /\ fs' = NoCheckout
    /\ pc' = "idle"
    /\ NoExtraction
    /\ cleaned' = cleaned \cup {repo_idx}

\* line 85: extract_endpoints raised; nothing in run_repo_benchmark catches it
ExtractionRaised ==
    /\ bench_pc = "extract"
    /\ pc = "raised"
    /\ bench_pc' = "raised"
    /\ bench_last' = BenchEvent("raised", repo_idx, "", "")
    /\ UNCHANGED <<fs, pc, module_map, entry_points, queue, processed_files, endpoints,
                   parse_count, last, run, previous, stdout_errors>>
    /\ UNCHANGED <<clients, run_id, repo_idx, client_idx, result_files, results_summary,
                   cloned, cleaned>>

\* lines 87-90: no endpoint was returned
NoEndpoints ==
    /\ bench_pc = "extract"
    /\ pc = "done"
    /\ endpoints = <<>>
    /\ Cleanup
    /\ repo_idx' = repo_idx + 1
    /\ bench_pc' = "clone"
    /\ bench_last' = BenchEvent("noendpoints", repo_idx, "", "")
    /\ UNCHANGED <<clients, run_id, client_idx, result_files, results_summary, cloned>>

\* lines 92-97: endpoint_codes is built and the loop over clients is entered
BeginClients ==
    /\ bench_pc = "extract"
    /\ pc = "done"
    /\ endpoints # <<>>
    /\ bench_pc' = "clients"
    /\ client_idx' = 1
    /\ bench_last' = BenchEvent("endpoints", repo_idx, "", "")
    /\ UNCHANGED <<fs, pc, module_map, entry_points, queue, processed_files, endpoints,
                   parse_count, last, run, previous, stdout_errors>>
    /\ UNCHANGED <<clients, run_id, repo_idx, result_files, results_summary, cloned, cleaned>>

\* lines 102-116: the result of this client for this repository exists
SkipClient ==
    /\ bench_pc = "clients"
    /\ client_idx <= Len(clients)
    /\ ResultExists(clients[client_idx], repo_idx)
    /\ results_summary' = Append(results_summary, SummaryEntry(clients[client_idx], repo_idx))
    /\ client_idx' = client_idx + 1
    /\ bench_last' = BenchEvent("skipped", repo_idx, clients[client_idx], "")
    /\ UNCHANGED <<fs, pc, module_map, entry_points, queue, processed_files, endpoints,
                   parse_count, last, run, previous, stdout_errors>>
    /\ UNCHANGED <<bench_pc, clients, run_id, repo_idx, result_files, cloned, cleaned>>

\* lines 118-209: validate_batch returns or raises; building
\* benchmark_metadata reads collector.skipped_files (line 187), and every
\* exception of the try block is caught and printed
ValidateClient ==
    /\ bench_pc = "clients"
    /\ client_idx <= Len(clients)
    /\ ~ResultExists(clients[client_idx], repo_idx)
    /\ \E outcome \in {"returns", "raises"} :
          /\ IF outcome = "returns" /\ HasSkippedFiles
             THEN /\ result_files' =
                        result_files \cup {ResultFile(clients[client_idx], repo_idx)}
                  /\ results_summary' =
                        Append(results_summary, SummaryEntry(clients[client_idx], repo_idx))
             ELSE UNCHANGED <<result_files, results_summary>>
          /\ bench_last' = BenchEvent("validated", repo_idx, clients[client_idx], outcome)
    /\ client_idx' = client_idx + 1
    /\ UNCHANGED <<fs, pc, module_map, entry_points, queue, processed_files, endpoints,
                   parse_count, last, run, previous, stdout_errors>>
    /\ UNCHANGED <<bench_pc, clients, run_id, repo_idx, cloned, cleaned>>

\* lines 211-212: every client has run on this repository
CleanupAfterClients ==
    /\ bench_pc = "clients"
    /\ client_idx > Len(clients)
    /\ Cleanup
    /\ repo_idx' = repo_idx + 1
    /\ bench_pc' = "clone"
    /\ bench_last' = BenchEvent("cleaned", repo_idx, "", "")
    /\ UNCHANGED <<clients, run_id, client_idx, result_files, results_summary, cloned>>

\* lines 214-237: the loop over repos is over; the reports are generated
\* inside a try block, or skipped
Finish ==
    /\ bench_pc = "clone"
    /\ repo_idx > NumRepos
    /\ bench_pc' = "returned"
    /\ bench_last' = BenchEvent("finished", 0, "", "")
    /\ UNCHANGED <<fs, pc, module_map, entry_points, queue, processed_files, endpoints,
                   parse_count, last, run, previous, stdout_errors>>
    /\ UNCHANGED <<clients, run_id, repo_idx, client_idx, result_files, results_summary,
                   cloned, cleaned>>

\* The steps of extract_endpoints on a checkout that a clone has made.
ExtractEndpoints ==
    \/ BuildModuleMapStep
    \/ FindEntryPointsStep
    \/ SeedEntryPoints
    \/ SeedFallback
    \/ SkipProcessed
    \/ ProcessOk
    \/ ProcessError
    \/ Return

BenchNext ==
    \/ NoClients
    \/ StartRepos
    \/ CloneFails
    \/ CloneSucceeds
    \/ ExtractEndpoints
    \/ ExtractionRaised
    \/ NoEndpoints
    \/ BeginClients
    \/ SkipClient
    \/ ValidateClient
    \/ CleanupAfterClients
    \/ Finish

BenchInit ==
    /\ fs = NoCheckout
    /\ pc = "idle"
    /\ module_map = <<>>
    /\ entry_points = <<>>
    /\ queue = <<>>
    /\ processed_files = {}
    /\ endpoints = <<>>
    /\ parse_count = [p \in {} |-> 0]
    /\ last = NoEvent
    /\ run = 1
    /\ previous = <<>>
    /\ stdout_errors \in StdoutErrors
    /\ bench_pc = "begin"
    /\ clients \in ClientLists
    /\ run_id \in RunIds
    /\ repo_idx = 0
    /\ client_idx = 0
    /\ result_files \in FormerResults
    /\ results_summary = <<>>
    /\ cloned = {}
    /\ cleaned = {}
    /\ bench_last = NoBenchEvent

BenchSpec == BenchInit /\ [][BenchNext]_vars


(***************************************************************************)
(* Properties                                                              *)
(***************************************************************************)
Returned == pc = "done"
\* The visitor ran to its end on the file of the latest step.
Visited == last.op = "process" \/ (last.op = "error" /\ last.cause = "resolve")
FunctionDefs(path) == SelectSeq(TreeOf(path), LAMBDA n : n.k = "FunctionDef")
RelPathStr(path) == PathStr(RelativeTo(path, TargetDir))

\* C1: in the list one run returns, no two records have the same id.
C1_UniqueIds ==
    \A i, j \in DOMAIN endpoints : i # j => endpoints[i].id # endpoints[j].id

\* C2: the traversal loop ends on every project, cyclic include graphs
\* included: the queue becomes empty and the call returns, processed_files
\* never shrinks within a call, and a file is taken through the try block
\* (and so through include discovery) only when it was not processed before.
C2_TraversalTerminates ==
    /\ <>[](pc = "done" /\ queue = <<>>)
    /\ [][run' = run => processed_files \subseteq processed_files']_vars
    /\ [][last'.op \in {"process", "error"}
            => last'.file \notin processed_files /\ last'.file \in processed_files']_vars

\* C3: extract_endpoints never raises: no step leaves it with an exception
\* in flight, an exception while a file is handled is followed by the next
\* pass of the loop, and no record gathered so far is lost.
C3_NeverRaises ==
    [][/\ pc' # "raised"
       /\ (last'.op = "error" => pc' = "loop")
       /\ (run' = run => IsPrefix(endpoints, endpoints'))]_vars

\* The head of the queue is an unprocessed file with malformed syntax.
BadSyntaxAtHead ==
    /\ pc = "loop"
    /\ queue # <<>>
    /\ Head(queue).file \notin processed_files
    /\ IsFile(Head(queue).file)
    /\ fs[Head(queue).file].st = "syntax"

\* C4: a dequeued file with malformed syntax adds no record and no binding;
\* the bindings behind it stay queued in their order, the loop goes on, and
\* the call returns only with the queue empty.
C4_SyntaxErrorConfined ==
    /\ [][BadSyntaxAtHead
            => /\ endpoints' = endpoints
               /\ queue' = Tail(queue)
               /\ pc' = "loop"
               /\ processed_files' = processed_files \cup {Head(queue).file}]_vars
    /\ [](Returned => queue = <<>>)

IdsAndRoutes(list) == {<<list[i].id, list[i].route>> : i \in DOMAIN list}

\* C5: a second run on the unchanged directory returns the same set of ids
\* and routes as the first, whatever the orders of the glob and of the set
\* of included names.
C5_SameResultTwice ==
    (run = 2 /\ Returned) => IdsAndRoutes(endpoints) = IdsAndRoutes(previous)

\* The application-constructor assignments of the checkout, as (file, index).
AppAssignments ==
    {<<p, i>> \in UNION {{<<p, i>> : i \in DOMAIN fs[p].body} : p \in DOMAIN fs} :
        fs[p].body[i].k = "Assign" /\ IsFastapiCall(fs[p].body[i].value)}
IncludeRouterCalls ==
    {<<p, i>> \in UNION {{<<p, i>> : i \in DOMAIN fs[p].body} : p \in DOMAIN fs} :
        /\ fs[p].body[i].k = "Call"
        /\ IsAttribute(fs[p].body[i].func)
        /\ AttrName(fs[p].body[i].func) = "include_router"}
\* Exactly one application-constructor assignment, to a variable, and no
\* include_router call.
SingleApp ==
    /\ Cardinality(AppAssignments) = 1
    /\ \A a \in AppAssignments : IsName(fs[a[1]].body[a[2]].target)
    /\ IncludeRouterCalls = {}
TheAppFile == (CHOOSE a \in AppAssignments : TRUE)[1]
TheAppVar ==
    LET a == CHOOSE a \in AppAssignments : TRUE IN fs[a[1]].body[a[2]].target.ids[1]

RouteVerbs == {"get", "post", "put", "delete", "patch", "options", "head"}
VerbUpper ==
    [v \in RouteVerbs |->
        CASE v = "get" -> "GET" [] v = "post" -> "POST" [] v = "put" -> "PUT"
          [] v = "delete" -> "DELETE" [] v = "patch" -> "PATCH"
          [] v = "options" -> "OPTIONS" [] v = "head" -> "HEAD"]
\* A decorator @v.verb(...) with v one of the names given.
IsRouteDecorator(d, names) ==
    /\ d.call
    /\ d.func.base = "Name"
    /\ Len(d.func.ids) = 2
    /\ d.func.ids[1] \in names
    /\ d.func.ids[2] \in RouteVerbs
RouteDecorators(node, names) ==
    SelectSeq(node.decorator_list, LAMBDA d : IsRouteDecorator(d, names))
RouteDecorated(node, names) ==
    node.k = "FunctionDef" /\ RouteDecorators(node, names) # <<>>

IsScenarioB ==
    /\ {MainPy, UsersPy} \subseteq DOMAIN fs
    /\ fs[MainPy] \in {MainScenarioB(i) : i \in ImportUsersForms}
    /\ fs[UsersPy] = ScenarioBUsers

\* C7: in Scenario B the run returns exactly one record, from users.py,
\* POST "/", users.py having been processed with {router}.
C7_ScenarioB ==
    (Returned /\ IsScenarioB) =>
        /\ UsersPy \in processed_files
        /\ Len(endpoints) = 1
        /\ endpoints[1].source = "users.py"
        /\ endpoints[1].method = "POST"
        /\ endpoints[1].route = PyStr("/")

\* C8: in Scenario D the run reaches the file behind api/__init__.py's
\* relative import (api/routers.py or api/routers/__init__.py) and its
\* handler is extracted.
C8_ScenarioD ==
    (Returned /\ fs \in ScenarioD) =>
        \E p \in {InRepo(<<"api", "routers.py">>), InRepo(<<"api", "routers", "__init__.py">>)} :
            /\ p \in processed_files
            /\ \E i \in DOMAIN endpoints : endpoints[i].source = RelPathStr(p)

\* The route the specification gives a decorator call: its first positional
\* argument when a string literal, else a string-valued path/url keyword,
\* else "unknown".
SpecRoute(d) ==
    LET kws == SelectSeq(d.keywords,
                         LAMBDA kw : /\ kw.arg \in {"path", "url"}
                                     /\ IsConstant(kw.value)
                                     /\ kw.value.ty = "str")
    IN IF d.args # <<>> /\ IsConstant(d.args[1]) /\ d.args[1].ty = "str"
       THEN PyStr(d.args[1].v)
       ELSE IF kws # <<>> THEN PyStr(kws[1].value.v) ELSE PyStr("unknown")

\* C9: every record the visitor emits has the route the specification gives
\* the decorator that matched.
C9_RouteOrUnknown ==
    Visited =>
        \A i \in DOMAIN last.found :
            \E k \in DOMAIN FunctionDefs(last.file) :
                LET node == FunctionDefs(last.file)[k]
                IN /\ node.name = last.found[i].function_name
                   /\ RouteDecorated(node, last.vars)
                   /\ last.found[i].route = SpecRoute(RouteDecorators(node, last.vars)[1])

\* C10: a function with matching decorators yields exactly one record, with
\* the method and the route of the first of them in source order.
C10_FirstMatchWins ==
    Visited =>
        \A k \in DOMAIN FunctionDefs(last.file) :
            LET node == FunctionDefs(last.file)[k]
                recs == {i \in DOMAIN last.found : last.found[i].function_name = node.name}
                first == RouteDecorators(node, last.vars)[1]
            IN RouteDecorated(node, last.vars) =>
                  /\ Cardinality(recs) = 1
                  /\ \A i \in recs :
                        /\ last.found[i].method = VerbUpper[first.func.ids[2]]
                        /\ last.found[i].route = DecoratorRoute(first)

\* Scenario E: two matching decorators with different verbs on one function,
\* and its record carries the first one's.
C10_StackedDecorators ==
    /\ Visited
    /\ \E k \in DOMAIN FunctionDefs(last.file) :
          LET node == FunctionDefs(last.file)[k]
              ds == RouteDecorators(node, last.vars)
          IN /\ RouteDecorated(node, last.vars)
             /\ Len(ds) = 2
             /\ ds[1].func.ids[2] # ds[2].func.ids[2]
             /\ \E i \in DOMAIN last.found :
                   /\ last.found[i].function_name = node.name
                   /\ last.found[i].method = VerbUpper[ds[1].func.ids[2]]

\* C11: the code of every record is the source from the line of the
\* function's earliest decorator to the last line of its body, so the route
\* decorator that matched is a line of it, and metadata.lines counts the
\* lines of that slice.
C11_SnippetFromFirstDecorator ==
    Visited =>
        \A i \in DOMAIN last.found :
            \E k \in DOMAIN FunctionDefs(last.file) :
                LET node == FunctionDefs(last.file)[k]
                IN /\ node.name = last.found[i].function_name
                   /\ RouteDecorated(node, last.vars)
                   /\ last.found[i].code = StrJoin(node.lines, "\n")
                   /\ StrContains(last.found[i].code, RouteDecorators(node, last.vars)[1].src)
                   /\ last.found[i].metadata.lines = Len(node.lines)

\* The Python files of the checkout, and those among them named main.py or
\* app.py, at any depth.
PyFiles == {p \in DOMAIN fs : IsProperPrefix(TargetDir, p) /\ EndsWith(PathName(p), ".py")}
MainOrAppFiles == {p \in PyFiles : PathName(p) \in {"main.py", "app.py"}}
\* The files in which the scan finds an application-constructor assignment,
\* with the variable it is assigned to.
AppConstructors(p) ==
    {i \in DOMAIN fs[p].body :
        /\ fs[p].body[i].k = "Assign"
        /\ IsFastapiCall(fs[p].body[i].value)
        /\ IsName(fs[p].body[i].target)}
FoundEntryFiles == {p \in PyFiles : fs[p].st \in {"ok", "deep"} /\ AppConstructors(p) # {}}
QueuedFiles == {queue[i].file : i \in DOMAIN queue}

\* C12: the queue is seeded by the main.py/app.py fallback exactly when the
\* scan found no application-constructor assignment in any file; the fallback
\* seeds exactly the files named main.py or app.py, once each, with {"app"};
\* otherwise only found entry points are seeded, so a main.py or app.py is
\* seeded only when it is one of them.
C12_FallbackIffNoEntryPoint ==
    last.op \in {"seed", "fallback"} =>
        /\ (last.op = "fallback") <=> (FoundEntryFiles = {})
        /\ last.op = "fallback" =>
              /\ QueuedFiles = MainOrAppFiles
              /\ Len(queue) = Cardinality(MainOrAppFiles)
              /\ \A i \in DOMAIN queue : queue[i].vars = {"app"}
        /\ last.op = "seed" =>
              /\ QueuedFiles = FoundEntryFiles
              /\ \A i \in DOMAIN queue :
                    \E k \in AppConstructors(queue[i].file) :
                        queue[i].vars = {fs[queue[i].file].body[k].target.ids[1]}

\* The fallback has just seeded a main.py of a subdirectory and an app.py.
C12_FallbackSeededTwo ==
    /\ last.op = "fallback"
    /\ Len(queue) = 2
    /\ \E i \in DOMAIN queue : PathParent(queue[i].file) # TargetDir

\* No application object was found and no main.py or app.py exists.
NothingToSeed == FoundEntryFiles = {} /\ MainOrAppFiles = {}

\* C13: with no entry point and no main.py or app.py, the call raises
\* nothing, processes no file and returns the empty list.
C13_EmptyWithoutEntry ==
    NothingToSeed =>
        /\ pc # "raised"
        /\ processed_files = {}
        /\ queue = <<>>
        /\ endpoints = <<>>
        /\ last.op \notin {"process", "error", "skip"}

\* Such a call has returned, from a checkout that does hold Python files.
C13_ReturnedEmpty ==
    /\ NothingToSeed
    /\ PyFiles # {}
    /\ Exists(TargetDir)
    /\ last.op = "return"
    /\ endpoints = <<>>

\* C15: within one run no file is parsed more than once, the entry-point
\* scan and the traversal counted together.
C15_ParsedAtMostOnce == \A p \in DOMAIN parse_count : parse_count[p] <= 1

\* The binding at the head of the queue is for a file processed before.
ProcessedAtHead == pc = "loop" /\ queue # <<>> /\ Head(queue).file \in processed_files

\* C16: dequeuing a binding whose file is already processed only removes it
\* from the queue: the output list, the processed set and the rest of the
\* queue stay as they are; and the records a file adds are those of the
\* functions decorated through the variables of the binding it was dequeued
\* with.
C16_FirstSeenWins ==
    [][/\ ProcessedAtHead =>
            /\ endpoints' = endpoints
            /\ processed_files' = processed_files
            /\ queue' = Tail(queue)
            /\ pc' = "loop"
       /\ last'.op \in {"process", "error"} =>
            /\ last'.vars = Head(queue).vars
            /\ endpoints' = endpoints \o last'.found
            /\ \A i \in DOMAIN last'.found :
                  \E k \in DOMAIN FunctionDefs(last'.file) :
                      /\ FunctionDefs(last'.file)[k].name = last'.found[i].function_name
                      /\ RouteDecorated(FunctionDefs(last'.file)[k], Head(queue).vars)]_vars

\* A later binding for a processed file was just dropped although the file
\* has a function decorated through its variable that is not in the output.
C16_LaterBindingDropped ==
    /\ last.op = "skip"
    /\ \E i \in DOMAIN endpoints : endpoints[i].source = RelPathStr(last.file)
    /\ \E k \in DOMAIN FunctionDefs(last.file) :
          /\ RouteDecorated(FunctionDefs(last.file)[k], last.vars)
          /\ \A i \in DOMAIN endpoints :
                endpoints[i].function_name # FunctionDefs(last.file)[k].name

\* The names the latest step found included in its file, and what the
\* resolver answers for the base of each.
IncludedNames == FindIncludes(TreeOf(last.file), last.vars)
OriginOf(name) == ResolveVariableOrigin(TreeOf(last.file), last.file, BaseModuleVar(name))
Unresolved == {n \in IncludedNames : OriginOf(n).kind = "none"}
Resolved == {n \in IncludedNames : OriginOf(n).kind = "origin"}

\* C17: a name the resolver returns null for enqueues nothing and raises
\* nothing: the step fails in resolution only when the resolver itself
\* raised for some name, and otherwise it enqueues one binding for each of
\* the names that did resolve, on the file resolved for it.
C17_UnresolvedDropped ==
    Visited =>
        /\ last.op = "error" => \E n \in IncludedNames : OriginOf(n).kind = "raise"
        /\ last.op = "process" =>
              /\ Len(last.enq) = Cardinality(Resolved)
              /\ \A n \in Resolved :
                    \E i \in DOMAIN last.enq : last.enq[i].file = OriginOf(n).file
              /\ \A i \in DOMAIN last.enq :
                    \E n \in Resolved : last.enq[i].file = OriginOf(n).file

\* A file was processed in which one included name had no origin and
\* another was resolved and enqueued.
C17_OneDroppedOneEnqueued ==
    /\ last.op = "process"
    /\ Unresolved # {}
    /\ Resolved # {}
    /\ Len(last.enq) = Cardinality(Resolved)

\* The file of the latest step has a from-import that binds the name (under
\* its alias if it has one), and a top-level assignment to the plain name.
BoundByFromImport(name) ==
    \E i \in DOMAIN TreeOf(last.file) :
        /\ TreeOf(last.file)[i].k = "ImportFrom"
        /\ \E j \in DOMAIN TreeOf(last.file)[i].names :
              LET alias == TreeOf(last.file)[i].names[j]
              IN (IF alias.asname # "" THEN alias.asname ELSE alias.name) = name
AssignedAtTopLevel(name) ==
    \E i \in DOMAIN TreeOf(last.file) :
        /\ TreeOf(last.file)[i].k = "Assign"
        /\ TreeOf(last.file)[i].depth = 0
        /\ TreeOf(last.file)[i].target = NameExpr(<<name>>)

\* C18: for every name the walker asked the resolver about, the answer
\* (file itself, name) is given only when no from-import of the file binds
\* the name and a top-level assignment to the plain name exists, it is given
\* whenever that is so, and the answer is null when neither a matching
\* from-import nor such an assignment exists.
C18_ResolverPrecedence ==
    Visited =>
        \A n \in IncludedNames :
            LET name == BaseModuleVar(n)
            IN /\ OriginOf(n) = Origin(last.file, name)
                    => ~BoundByFromImport(name) /\ AssignedAtTopLevel(name)
               /\ (~BoundByFromImport(name) /\ AssignedAtTopLevel(name))
                    => OriginOf(n) = Origin(last.file, name)
               /\ (~BoundByFromImport(name) /\ ~AssignedAtTopLevel(name))
                    => OriginOf(n) = NoOrigin

\* The from-imports of the file of the latest step.
FromImports == SelectSeq(TreeOf(last.file), LAMBDA s : s.k = "ImportFrom")

\* <path>.py and <path>/__init__.py
DotPy(path) == IF path = <<>> THEN <<".py">> ELSE Append(Front(path), Last(path) \o ".py")
PackageInit(path) == Append(path, "__init__.py")
\* The directory level - 1 parents above the directory of file.
RECURSIVE Parents(_, _)
Parents(dir, n) == IF n = 0 \/ dir = <<>> THEN dir ELSE Parents(Front(dir), n - 1)
\* The segments of a dotted module name, none for the empty one.
Segments(module) == IF module = "" THEN <<>> ELSE StrSplit(module, ".")
\* <path>.py if it exists, otherwise <path>/__init__.py if it exists,
\* otherwise null.
ModuleOrPackage(path) ==
    IF Exists(DotPy(path)) THEN FoundPath(DotPy(path))
    ELSE IF Exists(PackageInit(path)) THEN FoundPath(PackageInit(path))
         ELSE NoPath

\* C19: for a relative from-import of file F, _resolve_import_path answers
\* for the path made of F's directory, level - 1 parents up, and the
\* module's segments: <path>.py if it exists, otherwise <path>/__init__.py
\* if it exists, otherwise null.
C19_RelativeImportPath ==
    Visited =>
        \A i \in DOMAIN FromImports :
            FromImports[i].level > 0 =>
                ResolveImportPath(last.file, FromImports[i].module, FromImports[i].level)
                    = ModuleOrPackage(Parents(Front(last.file), FromImports[i].level - 1)
                                        \o Segments(FromImports[i].module))

\* C20: for an absolute from-import of module m, _resolve_import_path
\* answers null for an empty m, the module map's entry for m when it has
\* one, and otherwise <root>/<m as path>.py if it exists, else
\* <root>/<m as path>/__init__.py if it exists, else null.
C20_AbsoluteImportPath ==
    Visited =>
        \A i \in DOMAIN FromImports :
            FromImports[i].level = 0 =>
                ResolveImportPath(last.file, FromImports[i].module, 0)
                    = IF FromImports[i].module = "" THEN NoPath
                      ELSE IF FromImports[i].module \in DOMAIN module_map
                           THEN FoundPath(module_map[FromImports[i].module])
                           ELSE ModuleOrPackage(TargetDir \o Segments(FromImports[i].module))

\* A file was processed that imports from a module of the map, which its
\* include resolved to, and from a module that is nowhere in the checkout.
C20_MapHitAndMiss ==
    /\ last.op = "process"
    /\ \E i, j \in DOMAIN FromImports :
          /\ FromImports[i].level = 0
          /\ FromImports[i].module \in DOMAIN module_map
          /\ \E k \in DOMAIN last.enq : last.enq[k].file = module_map[FromImports[i].module]
          /\ FromImports[j].level = 0
          /\ FromImports[j].module \notin DOMAIN module_map
          /\ ResolveImportPath(last.file, FromImports[j].module, 0) = NoPath

\* C14: for every repository whose clone succeeded, collector.cleanup() has
\* been called once the loop has moved to the next repository or
\* run_repo_benchmark has been left, by return or by an exception.
C14_CleanupOnEveryPath ==
    \A r \in cloned :
        (repo_idx > r \/ bench_pc \in {"returned", "raised"}) => r \in cleaned

\* The (from-import, alias) pairs of the file of the latest step that bind
\* the name.
BindersOf(name) ==
    {<<i, j>> \in UNION {{<<i, j>> : j \in DOMAIN FromImports[i].names} : i \in DOMAIN FromImports} :
        LET alias == FromImports[i].names[j]
        IN (IF alias.asname # "" THEN alias.asname ELSE alias.name) = name}

\* <pkg>/<name>.py and <pkg>/<name>/__init__.py beside a package __init__.py
SiblingModule(init, name) == Append(Front(init), name \o ".py")
SiblingPackage(init, name) == Front(init) \o <<name, "__init__.py">>

\* C21: for an included name bound by one from-import that resolves to a
\* file, the resolver answers (sibling module, null) when that file is a
\* package __init__.py beside a module named as the imported name, else
\* (subpackage __init__.py, null) when it is beside such a subpackage, and
\* (resolved file, imported name) in every other case.
C21_SiblingOverPackageInit ==
    Visited =>
        \A n \in IncludedNames :
            \A b \in BindersOf(BaseModuleVar(n)) :
                LET node == FromImports[b[1]]
                    imported == node.names[b[2]].name
                    resolved == ResolveImportPath(last.file, node.module, node.level)
                IN (Cardinality(BindersOf(BaseModuleVar(n))) = 1 /\ resolved.kind = "path") =>
                      OriginOf(n) =
                          IF /\ Last(resolved.path) = "__init__.py"
                             /\ Exists(SiblingModule(resolved.path, imported))
                          THEN Origin(SiblingModule(resolved.path, imported), NoneName)
                          ELSE IF /\ Last(resolved.path) = "__init__.py"
                                  /\ Exists(SiblingPackage(resolved.path, imported))
                               THEN Origin(SiblingPackage(resolved.path, imported), NoneName)
                               ELSE Origin(resolved.path, imported)

\* An import under an alias resolved to the package __init__.py, and the
\* sibling module named as the imported name won over the subpackage.
C21_ModuleWonOverSubpackage ==
    /\ last.op = "process"
    /\ \E n \in IncludedNames :
          \E b \in BindersOf(BaseModuleVar(n)) :
              LET node == FromImports[b[1]]
                  alias == node.names[b[2]]
                  resolved == ResolveImportPath(last.file, node.module, node.level)
              IN /\ alias.asname # ""
                 /\ resolved.kind = "path"
                 /\ Last(resolved.path) = "__init__.py"
                 /\ Exists(SiblingModule(resolved.path, alias.name))
                 /\ Exists(SiblingPackage(resolved.path, alias.name))
                 /\ OriginOf(n) = Origin(SiblingModule(resolved.path, alias.name), NoneName)

\* What remains of a dotted name after its first segment.
SuffixAfterBase(name) == StrJoin(Tail(StrSplit(name, ".")), ".")

\* C22: a completed step enqueues, for each included name that resolved, the
\* file resolved for the first segment of the name together with one
\* variable: what follows the first segment when the name is dotted, and
\* otherwise the name the resolver returned, or the included name itself
\* when the resolver returned no name.
C22_EnqueuedVariable ==
    last.op = "process" =>
        {last.enq[i] : i \in DOMAIN last.enq} =
            {Binding(OriginOf(n).file,
                     IF StrContains(n, ".") THEN SuffixAfterBase(n)
                     ELSE IF OriginOf(n).name = NoneName THEN n
                          ELSE OriginOf(n).name) : n \in Resolved}

\* The application-constructor assignments of a file at module level.
TopLevelConstructors(p) == {i \in AppConstructors(p) : fs[p].body[i].depth = 0}
FirstOf(S) == CHOOSE i \in S : \A j \in S : i <= j

\* C23: when the queue has been seeded, no file is seeded twice; a file is
\* seeded as a found entry point exactly when it holds a module-level
\* assignment of an application-constructor call to a variable, and it is
\* seeded with the variable of the first such assignment; an assignment
\* nested in a function, class or conditional makes no entry point.
C23_FirstTopLevelAssignment ==
    last.op \in {"seed", "fallback"} =>
        /\ \A i, j \in DOMAIN queue : queue[i].file = queue[j].file => i = j
        /\ last.op = "seed" =>
              \A i \in DOMAIN queue :
                  LET p == queue[i].file
                  IN /\ TopLevelConstructors(p) # {}
                     /\ queue[i].vars =
                           {fs[p].body[FirstOf(TopLevelConstructors(p))].target.ids[1]}
        /\ \A p \in PyFiles :
              (fs[p].st \in {"ok", "deep"} /\ TopLevelConstructors(p) # {}) =>
                  last.op = "seed" /\ p \in QueuedFiles

\* a/b/c.py is module a.b.c and a/b/__init__.py is module a.b
DottedName(p) ==
    LET rel == RelativeTo(p, TargetDir)
    IN IF Last(rel) = "__init__.py" THEN StrJoin(Front(rel), ".")
       ELSE StrJoin(Append(Front(rel), SubSeq(Last(rel), 1, Len(Last(rel)) - 3)), ".")

\* C24: once the module map is built, every Python file of the checkout is
\* the value stored under its dotted module name: no file is without an
\* entry and none has lost its entry to another file of the same name.
C24_EveryFileMapped ==
    last.op = "index" =>
        \A p \in PyFiles :
            /\ DottedName(p) \in DOMAIN module_map
            /\ module_map[DottedName(p)] = p

\* The statements of a file that are calls <receiver>.include_router(...),
\* and those among them with the receiver's dotted name in vars and a name
\* or attribute chain of names as first argument.
IncludeRouterCallsOf(file) ==
    {i \in DOMAIN TreeOf(file) :
        /\ TreeOf(file)[i].k = "Call"
        /\ Len(TreeOf(file)[i].func.ids) >= 2
        /\ Last(TreeOf(file)[i].func.ids) = "include_router"}
QualifyingCalls(file, router_vars) ==
    {i \in IncludeRouterCallsOf(file) :
        /\ TreeOf(file)[i].func.base = "Name"
        /\ StrJoin(Front(TreeOf(file)[i].func.ids), ".") \in router_vars
        /\ TreeOf(file)[i].args # <<>>
        /\ TreeOf(file)[i].args[1].base = "Name"}

\* C25: in a pass of the loop, every binding appended to the queue is on the
\* file resolved for the first argument of a call
\* <receiver>.include_router(<name>, ...) of the dequeued file whose
\* receiver's dotted name is in the dequeued vars; calls on other receivers
\* or with another kind of first argument append nothing.
C25_EnqueueOnlyFromInclude ==
    [][(pc = "loop" /\ queue # <<>>) =>
          \A k \in DOMAIN queue' :
              k >= Len(queue) =>
                  \E i \in QualifyingCalls(Head(queue).file, Head(queue).vars) :
                      LET arg0 == TreeOf(Head(queue).file)[i].args[1]
                          origin == ResolveVariableOrigin(TreeOf(Head(queue).file),
                                                          Head(queue).file, arg0.ids[1])
                      IN origin.kind = "origin" /\ queue'[k].file = origin.file]_vars

\* A file was processed that calls include_router on a receiver outside its
\* vars and with an argument that is no name, and nothing was enqueued.
C25_ForeignReceiverPassedOver ==
    /\ last.op = "process"
    /\ last.enq = <<>>
    /\ \E i \in IncludeRouterCallsOf(last.file) :
          /\ TreeOf(last.file)[i].func.base = "Name"
          /\ StrJoin(Front(TreeOf(last.file)[i].func.ids), ".") \notin last.vars
          /\ TreeOf(last.file)[i].args # <<>>
          /\ TreeOf(last.file)[i].args[1].base = "Name"
          /\ ResolveVariableOrigin(TreeOf(last.file), last.file,
                                   TreeOf(last.file)[i].args[1].ids[1]).kind = "origin"
    /\ \E i \in IncludeRouterCallsOf(last.file) :
          /\ StrJoin(Front(TreeOf(last.file)[i].func.ids), ".") \in last.vars
          /\ TreeOf(last.file)[i].args # <<>>
          /\ TreeOf(last.file)[i].args[1].base # "Name"

\* C26: the queue is seeded, before the loop, with one binding per entry
\* point holding the entry variable alone; every pass of the loop takes the
\* binding at the head and leaves the waiting ones in their order, new ones
\* behind them; and a file that is an entry point is never processed with
\* other variables than its entry variable.
C26_FifoFromEntryPoints ==
    [][/\ (pc = "scanned" /\ pc' = "loop") =>
             /\ Len(queue') = Len(entry_points')
             /\ \A i \in DOMAIN queue' :
                   queue'[i] = [file |-> entry_points'[i][1], vars |-> {entry_points'[i][2]}]
       /\ (pc = "loop" /\ queue # <<>>) =>
             /\ Len(queue') >= Len(queue) - 1
             /\ SubSeq(queue', 1, Len(queue) - 1) = Tail(queue)
             /\ last'.file = Head(queue).file
             /\ last'.vars = Head(queue).vars
             /\ \A i \in DOMAIN entry_points :
                   (entry_points[i][1] = Head(queue).file /\ last'.op \in {"process", "error"})
                       => Head(queue).vars = {entry_points[i][2]}]_vars

\* A binding found through include_router for a file that is an entry point
\* itself was dequeued after the entry binding of that file, and dropped.
C26_IncludedEntryKeptItsVariable ==
    /\ last.op = "skip"
    /\ \E i \in DOMAIN entry_points :
          /\ entry_points[i][1] = last.file
          /\ last.vars # {entry_points[i][2]}
          /\ \E k \in DOMAIN endpoints :
                /\ endpoints[k].source = RelPathStr(last.file)
                /\ endpoints[k].function_name = "health"

\* The included names of the file of the latest step that are plain names
\* bound in that file by an assignment and by no from-import.
LocalRouters ==
    {n \in IncludedNames :
        /\ ~StrContains(n, ".")
        /\ ~BoundByFromImport(n)
        /\ \E i \in DOMAIN TreeOf(last.file) :
              /\ TreeOf(last.file)[i].k = "Assign"
              /\ TreeOf(last.file)[i].target = NameExpr(<<n>>)}

\* C27: when the visit of a file F with vars ran to its end and F includes,
\* on a receiver in vars, a router r that only an assignment of F binds: the
\* resolver answers (F, r), the step enqueues (F, {r}), and the step emits no
\* function that is decorated through names outside vars only.
C27_LocalRouterEnqueuedAndLost ==
    Visited =>
        /\ \A r \in LocalRouters :
              /\ OriginOf(r) = Origin(last.file, r)
              /\ \E k \in DOMAIN last.enq : last.enq[k] = Binding(last.file, r)
        /\ \A k \in DOMAIN last.found :
              \E i \in DOMAIN TreeOf(last.file) :
                  /\ RouteDecorated(TreeOf(last.file)[i], last.vars)
                  /\ TreeOf(last.file)[i].name = last.found[k].function_name

\* The files the include_router calls of a file lead to: the origin of the
\* first segment of each first argument that is a name.
IncludeTargets(q) ==
    IF q \notin DOMAIN fs THEN {}
    ELSE {ResolveVariableOrigin(TreeOf(q), q, TreeOf(q)[i].args[1].ids[1]).file :
            i \in {i \in IncludeRouterCallsOf(q) :
                    /\ TreeOf(q)[i].args # <<>>
                    /\ TreeOf(q)[i].args[1].base = "Name"
                    /\ ResolveVariableOrigin(TreeOf(q), q,
                                             TreeOf(q)[i].args[1].ids[1]).kind = "origin"}}
\* The files reachable from a set of files along such calls.
RECURSIVE ReachableFrom(_)
ReachableFrom(S) ==
    LET step == S \cup UNION {IncludeTargets(q) : q \in S}
    IN IF step = S THEN S ELSE ReachableFrom(step)
SeededFiles == {entry_points[i][1] : i \in DOMAIN entry_points}

\* C28: in every state, each record of the output has a processed file as
\* its source, and each processed file is a seeded entry point or is
\* reachable from one along include_router calls of processed files.
C28_OnlyReachableFiles ==
    /\ \A k \in DOMAIN endpoints :
          \E p \in processed_files : endpoints[k].source = RelPathStr(p)
    /\ \A p \in processed_files :
          \/ p \in SeededFiles
          \/ \E q \in processed_files \ {p} :
                /\ p \in IncludeTargets(q)
                /\ q \in ReachableFrom(SeededFiles)

\* The call returned a record of an included file, and a Python file that
\* no entry point reaches, though it holds a route, was never processed.
C28_UnreachableFileLeftOut ==
    /\ Returned
    /\ \E p \in PyFiles \ ReachableFrom(SeededFiles) :
          /\ p \notin processed_files
          /\ \E i \in DOMAIN TreeOf(p) : RouteDecorated(TreeOf(p)[i], {"app", "router"})
    /\ \E k \in DOMAIN endpoints :
          \E p \in processed_files \ SeededFiles : endpoints[k].source = RelPathStr(p)

\* The names of the functions of a file that a route decorator on one of the
\* variables marks, in source order.
RouteFunctionNames(file, router_vars) ==
    LET fns == SelectSeq(TreeOf(file), LAMBDA n : RouteDecorated(n, router_vars))
    IN [i \in DOMAIN fns |-> fns[i].name]
\* The bindings of the names of a sequence, those without origin left out.
RECURSIVE BindingsOf(_, _)
BindingsOf(names, file) ==
    IF names = <<>> THEN <<>>
    ELSE LET origin == ResolveVariableOrigin(TreeOf(file), file, BaseModuleVar(Head(names)))
         IN (IF origin.kind = "origin"
             THEN <<Binding(origin.file,
                            FinalTargetVar(Head(names), TargetVarLook(Head(names)), origin.name))>>
             ELSE <<>>) \o BindingsOf(Tail(names), file)

\* C29: a pass of the loop appends to the output either nothing or the
\* records of all the route functions of the dequeued file.  When reading,
\* parsing or visiting the file raised, the output is as before and nothing
\* is enqueued; when resolving an include raised, the records of the file
\* are all there, and the queue got the bindings of the names that came
\* before the raising one and none of those after it.
C29_AllOrNothingPerFile ==
    [][(pc = "loop" /\ queue # <<>>) =>
          LET file == Head(queue).file
              added == SubSeq(endpoints', Len(endpoints) + 1, Len(endpoints'))
              names == [k \in DOMAIN added |-> added[k].function_name]
              appended == SubSeq(queue', Len(queue), Len(queue'))
          IN /\ SubSeq(endpoints', 1, Len(endpoints)) = endpoints
             /\ names = <<>> \/ names = RouteFunctionNames(file, Head(queue).vars)
             /\ (last'.op = "error" /\ last'.cause # "resolve") =>
                   /\ last'.cause \in {"read", "parse", "relative_to", "visit"}
                   /\ endpoints' = endpoints
                   /\ appended = <<>>
             /\ (last'.op = "error" /\ last'.cause = "resolve") =>
                   /\ names = RouteFunctionNames(file, Head(queue).vars)
                   /\ \E order \in SetOrders(FindIncludes(TreeOf(file), Head(queue).vars)) :
                         \E j \in DOMAIN order :
                             /\ ResolveVariableOrigin(TreeOf(file), file,
                                                      BaseModuleVar(order[j])).kind = "raise"
                             /\ appended = BindingsOf(SubSeq(order, 1, j - 1), file)]_vars

\* The visit of a file with a route function raised and left the output as
\* it was, after an earlier file had put its record there.
C29_VisitRaisedNothingEmitted ==
    /\ last.op = "error"
    /\ last.cause = "visit"
    /\ RouteFunctionNames(last.file, last.vars) # <<>>
    /\ endpoints # <<>>
    /\ \A k \in DOMAIN endpoints : endpoints[k].source # RelPathStr(last.file)

\* C30: when validate_batch has returned for a client and a repository, the
\* result file of that pair is written and results_summary holds the entry
\* of that pair.
C30_ReturnedValidationIsReported ==
    (bench_last.op = "validated" /\ bench_last.outcome = "returns") =>
        /\ ResultFile(bench_last.client, bench_last.repo) \in result_files
        /\ \E k \in DOMAIN results_summary :
              results_summary[k] = SummaryEntry(bench_last.client, bench_last.repo)
====
